---- MODULE Spec2Model ----
(***************************************************************************)
(* satsuki: the Arguments resolver (satsuki/__init__.py, class Arguments)  *)
(* and the ReleaseMgr coordinator (class ReleaseMgr), against an abstract  *)
(* GitHub gateway (the PyGithub calls the code makes).                     *)
(*                                                                         *)
(* Conventions.  A Python value that is "a str or None" is a string, with  *)
(* None written NoValue.  A flag of the raw keyword map is <<>> (absent or *)
(* None), <<FALSE>> or <<TRUE>>.  Lists are sequences.                     *)
(***************************************************************************)
EXTENDS Integers, Sequences, FiniteSets, TLC

NoValue == "<None>"

(* ----------------------------------------------------------------------- *)
(* Program constants                                                       *)
(* ----------------------------------------------------------------------- *)
MAX_UPLOAD_ATTEMPTS == 3

COMMAND_UPSERT == "upsert"
COMMAND_DELETE == "delete"
CMD_CREATE == "i_create"
CMD_RECREATE == "i_recreate"
CMD_UPDATE == "i_update"
CMD_DELETE_FILE == "i_delete_file"
CMD_DELETE_REL == "i_delete_rel"
CMD_DELETE_TAG == "i_delete_tag"
InternalCommands ==
  {CMD_CREATE, CMD_RECREATE, CMD_UPDATE, CMD_DELETE_FILE, CMD_DELETE_REL, CMD_DELETE_TAG}

FILE_SHA_NONE == "none"
FILE_SHA_SEP_FILE == "file"
FILE_SHA_LABEL == "label"

(* HASH_FILE with $platform substituted by platform.system().lower() *)
HashFileName(platform) == platform \o "-sha256.json"

(* ----------------------------------------------------------------------- *)
(* Strings.  TLC has no access to the characters of a string, so the       *)
(* string functions the code uses are tabulated on the strings the model   *)
(* draws its inputs from.                                                  *)
(* ----------------------------------------------------------------------- *)

(* v.strip().strip('"').strip("'") *)
Strip(v) ==
  CASE v = " "        -> ""
    [] v = " v1 "     -> "v1"
    [] v = "\"v1\""   -> "v1"
    [] v = "'o/r'"    -> "o/r"
    [] OTHER          -> v

(* '/' in s *)
HasSeparator(s) == s \in {"o/r", "e/r", "/", "o/", "/r", "u/p"}

(* Template(s).safe_substitute(subs): subs is a function from the          *)
(* placeholder names that are available to their values; an unknown        *)
(* placeholder is left as it is.                                           *)
SafeSubstitute(s, subs) ==
  CASE s = "v$gb_pkg_ver" /\ "gb_pkg_ver" \in DOMAIN subs -> "v" \o subs["gb_pkg_ver"]
    [] s = "$gb_pkg_name" /\ "gb_pkg_name" \in DOMAIN subs -> subs["gb_pkg_name"]
    [] OTHER -> s

(* os.path.basename *)
Basename(p) ==
  CASE p = "dist/a.zip" -> "a.zip"
    [] OTHER -> p

(* fnmatch.fnmatch(name, pattern) *)
FnMatch(name, pattern) ==
  \/ pattern = name
  \/ pattern = "*"
  \/ pattern = "v*" /\ name \in {"v1", "v2", "v*"}

(* ----------------------------------------------------------------------- *)
(* The raw keyword map and its cleaning (Arguments.__init__)               *)
(* ----------------------------------------------------------------------- *)
StrKeys == {"token", "command", "slug", "repo", "user", "tag", "commitish",
            "body", "rel_name", "file_sha", "files_file"}
FlagKeys == {"latest", "recreate", "force", "include_tag", "pre", "draft"}
ListKeys == {"file", "label", "mime"}

(* "not v" for the value of key k *)
IsEmptyValue(k, v) ==
  IF k \in StrKeys THEN v \in {NoValue, ""}
  ELSE IF k \in FlagKeys THEN v # <<TRUE>>
  ELSE v = <<>>

(* a cleaning that deletes the absent and the empty values and keeps a     *)
(* flag that was given as false                                            *)
CleanKwargs_KeepFalse(raw) ==
  [k \in DOMAIN raw |->
     IF k \in FlagKeys THEN raw[k]
     ELSE IF IsEmptyValue(k, raw[k])
       THEN (IF k \in StrKeys THEN NoValue ELSE <<>>)
       ELSE (IF k \in StrKeys THEN Strip(raw[k]) ELSE raw[k])]

(* the keys whose values are empty are deleted, the other string values    *)
(* are stripped; a deleted key reads as NoValue, <<>> (flag) or <<>> (list)*)
CleanKwargs(raw) ==
  [k \in DOMAIN raw |->
     IF IsEmptyValue(k, raw[k])
       THEN (IF k \in StrKeys THEN NoValue ELSE <<>>)
       ELSE (IF k \in StrKeys THEN Strip(raw[k]) ELSE raw[k])]

(* kwargs.get(key, default) *)
Get(v, default) == IF v = NoValue THEN default ELSE v
GetFlag(o, default) == IF o = <<>> THEN default ELSE o[1]

(* ----------------------------------------------------------------------- *)
(* The remote release gateway (the PyGithub calls of the code).            *)
(* remote = [repo     : the slug of the repository that exists,            *)
(*           releases : the releases, in creation order,                   *)
(*           tags     : the tag list, each [name, sha],                    *)
(*           nextId   : the id the next created release gets]              *)
(* release = [id, tag_name, title, body, prerelease, draft, assets],       *)
(* assets a sequence of [name, size].                                      *)
(* ----------------------------------------------------------------------- *)
NoRelease == 0

(* the least index of a set of indices, 0 when there is none: the first   *)
(* hit of a linear scan                                                    *)
FirstIndex(S) == IF S = {} THEN 0 ELSE CHOOSE i \in S : \A j \in S : i <= j

(* the subsequence of s at the indices of S, in order *)
RECURSIVE PickFrom(_, _, _)
PickFrom(s, S, i) ==
  IF i > Len(s) THEN <<>>
  ELSE (IF i \in S THEN <<s[i]>> ELSE <<>>) \o PickFrom(s, S, i + 1)

Pick(s, S) == PickFrom(s, S, 1)

ReleaseIds(rm) == {rm.releases[i].id : i \in 1..Len(rm.releases)}

ReleaseIndex(rm, id) == FirstIndex({i \in 1..Len(rm.releases) : rm.releases[i].id = id})

(* the release with this id (the id is one of ReleaseIds) *)
ReleaseById(rm, id) == rm.releases[ReleaseIndex(rm, id)]

(* the first release of that tag, NoRelease if there is none *)
ReleaseOfTag(releases, i) == IF i = 0 THEN NoRelease ELSE releases[i].id

(* repo.get_release(tag): the id of the release of that tag, NoRelease     *)
(* when the gateway answers not found                                      *)
GwGetRelease(rm, tag) ==
  ReleaseOfTag(rm.releases,
    FirstIndex({i \in 1..Len(rm.releases) : rm.releases[i].tag_name = tag}))

LastOf(s) == IF s = <<>> THEN NoRelease ELSE s[Len(s)].id

(* repo.get_latest_release(): the most recently created release that is    *)
(* neither a draft nor a prerelease                                        *)
GwGetLatestRelease(rm) ==
  LastOf(Pick(rm.releases,
              {i \in 1..Len(rm.releases) :
                 ~rm.releases[i].draft /\ ~rm.releases[i].prerelease}))

(* ----------------------------------------------------------------------- *)
(* The Arguments object under construction.  err is the exception that     *)
(* ended the construction ("" while none was raised); calls lists the      *)
(* gateway calls made so far.                                              *)
(* ----------------------------------------------------------------------- *)
NoError == ""

NewArgs(kw) ==
  [kwargs |-> kw, err |-> NoError, calls |-> <<>>, stage |-> "new",
   api_token |-> NoValue, user_command |-> NoValue, force |-> FALSE,
   slug |-> NoValue, repo |-> NoValue, user |-> NoValue, recreate |-> FALSE,
   target_commitish |-> NoValue, gb_subs |-> <<>>,
   files |-> <<>>, labels |-> <<>>, mimes |-> <<>>, file_sha |-> NoValue,
   files_file |-> NoValue, file_info |-> <<>>,
   latest |-> FALSE, tag |-> NoValue, include_tag |-> FALSE,
   working_release |-> NoRelease, found |-> FALSE, working_tag |-> NoValue,
   working_tag_sha |-> NoValue, internal_command |-> NoValue,
   pre |-> FALSE, draft |-> FALSE, body |-> NoValue, rel_name |-> NoValue]

Raise(a, exc) == [a EXCEPT !.err = exc]
Called(a, call) == [a EXCEPT !.calls = Append(@, call)]

(* a resolver that keeps a given slug whether or not it has a separator *)
InitBasicSlug_KeepGiven(a, env) ==
  LET slug == Get(a.kwargs.slug,
                  Get(env.TRAVIS_REPO_SLUG, env.APPVEYOR_REPO_NAME))
      repo == a.kwargs.repo
      user == a.kwargs.user
  IN IF slug = NoValue /\ (repo = NoValue \/ user = NoValue)
       THEN Raise([a EXCEPT !.repo = repo, !.user = user], "AttributeError")
       ELSE [a EXCEPT !.repo = repo, !.user = user,
                      !.slug = IF slug = NoValue THEN user \o "/" \o repo ELSE slug]

(* Arguments._init_basic: auth, user command, slug (owner/repo) *)
InitBasicSlug(a, env) ==
  LET given == Get(a.kwargs.slug,
                   Get(env.TRAVIS_REPO_SLUG, env.APPVEYOR_REPO_NAME))
      slug == IF given # NoValue /\ ~HasSeparator(given) THEN NoValue ELSE given
      repo == a.kwargs.repo
      user == a.kwargs.user
  IN IF slug = NoValue /\ (repo = NoValue \/ user = NoValue)
       THEN Raise([a EXCEPT !.repo = repo, !.user = user], "AttributeError")
       ELSE [a EXCEPT !.repo = repo, !.user = user,
                      !.slug = IF slug = NoValue THEN user \o "/" \o repo ELSE slug]

(* a resolver that takes the token as it comes *)
InitBasicToken_NoCheck(a) == [a EXCEPT !.api_token = a.kwargs.token]

InitBasicToken(a) ==
  IF a.kwargs.token = NoValue
    THEN Raise(a, "PermissionError")
    ELSE [a EXCEPT !.api_token = a.kwargs.token]

InitBasicCommand(a) ==
  IF a.kwargs.command = NoValue
    THEN [a EXCEPT !.user_command = COMMAND_UPSERT]
    ELSE IF a.kwargs.command \in {COMMAND_UPSERT, COMMAND_DELETE}
      THEN [a EXCEPT !.user_command = a.kwargs.command]
      ELSE Raise(a, "AttributeError")

InitBasicRest(a, env) ==
  IF a.err # NoError THEN a
  ELSE [a EXCEPT !.recreate = GetFlag(a.kwargs.recreate, FALSE),
                 !.target_commitish =
                    Get(a.kwargs.commitish,
                        Get(env.TRAVIS_COMMIT, env.APPVEYOR_REPO_COMMIT)),
                 !.stage = "basic"]

InitBasicForce(a, env) ==
  IF a.err # NoError THEN a
  ELSE InitBasicRest(
         InitBasicSlug([a EXCEPT !.force = GetFlag(a.kwargs.force, FALSE)], env), env)

InitBasicAfterToken(a, env) ==
  IF a.err # NoError THEN a ELSE InitBasicForce(InitBasicCommand(a), env)

InitBasic(a, env) == InitBasicAfterToken(InitBasicToken(a), env)

(* Arguments._init_gb_info: fs.gb_info is the content of                   *)
(* gravitybee-info.json, a function from its keys to their values, the     *)
(* empty function when the file does not exist (no substitution)           *)
GbSubs(info) ==
  LET ver == IF "app_version" \in DOMAIN info
               THEN [k \in {"gb_pkg_ver"} |-> info["app_version"]] ELSE <<>>
      nam == IF "app_name" \in DOMAIN info
               THEN [k \in {"gb_pkg_name"} |-> info["app_name"]] ELSE <<>>
      app == IF "created_file" \in DOMAIN info
               THEN [k \in {"gb_sa_app"} |-> info["created_file"]] ELSE <<>>
  IN ver @@ nam @@ app

InitGbInfo(a, fs) == [a EXCEPT !.gb_subs = GbSubs(fs.gb_info)]

(* a resolver that leaves the latest flag as given when a tag is supplied *)
InitTag_KeepLatest(a, env) ==
  LET latest0 == GetFlag(a.kwargs.latest, FALSE)
      given == IF a.kwargs.tag = NoValue THEN NoValue
               ELSE SafeSubstitute(a.kwargs.tag, a.gb_subs)
      tag == IF given = NoValue /\ ~latest0
               THEN Get(env.TRAVIS_TAG, env.APPVEYOR_REPO_TAG_NAME)
               ELSE given
  IN IF given = NoValue /\ ~latest0 /\ tag = NoValue
       THEN Raise([a EXCEPT !.latest = latest0], "AttributeError")
       ELSE [a EXCEPT !.tag = tag,
                      !.latest = latest0,
                      !.include_tag =
                         IF a.recreate THEN TRUE
                         ELSE GetFlag(a.kwargs.include_tag, FALSE),
                      !.stage = "tag"]

(* Arguments._init_tag *)
InitTag(a, env) ==
  LET latest0 == GetFlag(a.kwargs.latest, FALSE)
      given == IF a.kwargs.tag = NoValue THEN NoValue
               ELSE SafeSubstitute(a.kwargs.tag, a.gb_subs)
      tag == IF given = NoValue /\ ~latest0
               THEN Get(env.TRAVIS_TAG, env.APPVEYOR_REPO_TAG_NAME)
               ELSE given
  IN IF given = NoValue /\ ~latest0 /\ tag = NoValue
       THEN Raise([a EXCEPT !.latest = latest0], "AttributeError")
       ELSE [a EXCEPT !.tag = tag,
                      !.latest = IF tag # NoValue THEN FALSE ELSE latest0,
                      !.include_tag =
                         IF a.recreate THEN TRUE
                         ELSE GetFlag(a.kwargs.include_tag, FALSE),
                      !.stage = "tag"]

(* ----------------------------------------------------------------------- *)
(* The local file system.                                                  *)
(* fs = [files    : a function from the paths of the regular data files    *)
(*                  that exist to their contents (strings),                *)
(*       json     : a function from the paths of the JSON manifest files   *)
(*                  that exist to their parsed contents (lists of info     *)
(*                  dicts),                                                *)
(*       gb_info  : the parsed gravitybee-info.json, <<>> if absent,       *)
(*       platform : platform.system()]                                     *)
(* An info dict is [filename, path, label, mime, sha256].                  *)
(* ----------------------------------------------------------------------- *)
GB_FILES_FILE == "gravitybee-files.json"

IsFile(fs, path) == path \in DOMAIN fs.files

(* os.path.getsize *)
GetSize(fs, path) == Len(fs.files[path])

(* hashlib.sha256 of a content: an injective function of the content *)
Sha256(content) == "sha256(" \o content \o ")"

(* Arguments.get_hash *)
GetHash(fs, path) == IF IsFile(fs, path) THEN Sha256(fs.files[path]) ELSE NoValue

(* str.lower() of platform.system() *)
Lower(s) ==
  CASE s = "Linux" -> "linux"
    [] s = "Windows" -> "windows"
    [] OTHER -> s

(* the paths of the model, in the order glob lists a directory *)
GlobOrder == <<"a.zip", "b.zip", "dist/a.zip", "linux-sha256.json", "windows-sha256.json">>

GlobMatches(path, pattern) ==
  \/ pattern = path
  \/ pattern = "*" /\ path \in {"a.zip", "b.zip", "linux-sha256.json", "windows-sha256.json"}
  \/ pattern = "*.zip" /\ path \in {"a.zip", "b.zip"}

(* glob.glob(pattern): the existing paths that match *)
Glob(fs, pattern) ==
  Pick(GlobOrder, {i \in 1..Len(GlobOrder) :
                     IsFile(fs, GlobOrder[i]) /\ GlobMatches(GlobOrder[i], pattern)})

(* a Python dict with its insertion order: a sequence of <<key, value>> *)
DictIndex(d, k) == FirstIndex({i \in 1..Len(d) : d[i][1] = k})

DictPut(d, i, k, v) == IF i = 0 THEN Append(d, <<k, v>>) ELSE [d EXCEPT ![i] = <<k, v>>]

DictSet(d, k, v) == DictPut(d, DictIndex(d, k), k, v)

DictKeys(d) == {d[i][1] : i \in 1..Len(d)}

DictGet(d, k) == d[DictIndex(d, k)][2]

(* json.dumps of a dict of str to (str or None) *)
RECURSIVE JsonItems(_)
JsonItems(d) ==
  IF d = <<>> THEN ""
  ELSE LET e == d[1]
           item == "\"" \o e[1] \o "\": "
                   \o (IF e[2] = NoValue THEN "null" ELSE "\"" \o e[2] \o "\"")
       IN IF Len(d) = 1 THEN item ELSE item \o ", " \o JsonItems(Tail(d))

JsonDumps(d) == "{" \o JsonItems(d) \o "}"

(* json.loads of the text of such a dict: the text is read item by item,   *)
(* a key between quotes, then null or a value between quotes               *)
(* s[i:j+1], empty past the end of the text *)
Slice(s, i, j) == IF i < 1 \/ j > Len(s) \/ j < i THEN "" ELSE SubSeq(s, i, j)

RECURSIVE QuoteAt(_, _)
QuoteAt(s, i) ==
  IF i > Len(s) THEN 0
  ELSE IF Slice(s, i, i) = "\"" THEN i
  ELSE QuoteAt(s, i + 1)

RECURSIVE JsonLoadItems(_, _, _)
JsonLoadNext(s, i, d) ==
  IF Slice(s, i, i + 1) = ", " THEN JsonLoadItems(s, i + 2, d) ELSE JsonLoadItems(s, i, d)

JsonLoadString(s, key, v0, ve, d) ==
  JsonLoadNext(s, ve + 1, Append(d, <<key, Slice(s, v0 + 1, ve - 1)>>))

JsonLoadValue(s, key, v0, d) ==
  IF Slice(s, v0, v0 + 3) = "null"
    THEN JsonLoadNext(s, v0 + 4, Append(d, <<key, NoValue>>))
    ELSE JsonLoadString(s, key, v0, QuoteAt(s, v0 + 1), d)

JsonLoadKey(s, i, ke, d) == JsonLoadValue(s, Slice(s, i + 1, ke - 1), ke + 3, d)

JsonLoadItems(s, i, d) ==
  IF i > Len(s) \/ Slice(s, i, i) = "}" THEN d
  ELSE JsonLoadKey(s, i, QuoteAt(s, i + 1), d)

JsonLoads(s) == JsonLoadItems(s, 2, <<>>)

RECURSIVE Concat(_)
Concat(ss) == IF ss = <<>> THEN <<>> ELSE ss[1] \o Concat(Tail(ss))

(* the command-line files of an upsert: glob expansion, then one info dict *)
(* per expanded file.  err is "IndexError" when labels[i] or mimes[i] is   *)
(* read past the end of the list.                                          *)
CliInfo(a, filename, i) ==
  [filename |-> Basename(filename), path |-> filename,
   label |-> IF Len(a.labels) > 0
               THEN (IF Len(a.labels) = 1
                       THEN SafeSubstitute(a.labels[1], a.gb_subs)
                       ELSE SafeSubstitute(a.labels[i], a.gb_subs))
               ELSE Basename(filename),
   mime |-> IF Len(a.mimes) > 0
              THEN (IF Len(a.mimes) = 1 THEN a.mimes[1] ELSE a.mimes[i])
              ELSE NoValue,
   sha256 |-> NoValue]

CliUpsertInfos(a, new_files) ==
  IF \E i \in 1..Len(new_files) :
        \/ Len(a.labels) > 1 /\ i > Len(a.labels)
        \/ Len(a.mimes) > 1 /\ i > Len(a.mimes)
    THEN [err |-> "IndexError", infos |-> <<>>]
    ELSE [err |-> NoError,
          infos |-> [i \in 1..Len(new_files) |-> CliInfo(a, new_files[i], i)]]

CliUpsertFiles(a, fs) ==
  CliUpsertInfos(a, Concat([i \in 1..Len(a.files) |-> Glob(fs, a.files[i])]))

(* the command-line files of a delete: no glob, no existence check *)
CliDeleteFiles(a) ==
  [i \in 1..Len(a.files) |->
     [filename |-> Basename(a.files[i]), path |-> a.files[i],
      label |-> NoValue, mime |-> NoValue, sha256 |-> NoValue]]

(* the loop over file_info of an upsert ("processing for all files          *)
(* regardless of provenance"): kept is preprocessed_files, sha_dict the    *)
(* hash map, err the exception that ended the loop                         *)
PreprocessSha(a, fs, info) ==
  IF a.file_sha # FILE_SHA_NONE THEN GetHash(fs, info.path) ELSE info.sha256

RECURSIVE Preprocess(_, _, _, _, _)
PreprocessOne(a, fs, infos, kept, sha_dict, info, sha) ==
  IF a.file_sha = FILE_SHA_LABEL /\ (sha = NoValue \/ info.label = NoValue)
    THEN [err |-> "TypeError", kept |-> kept, sha_dict |-> sha_dict]
  ELSE IF IsFile(fs, info.path)
    THEN Preprocess(a, fs, Tail(infos),
           Append(kept, [info EXCEPT !.sha256 = sha,
                           !.label = IF a.file_sha = FILE_SHA_LABEL
                                       THEN info.label \o " (SHA256: " \o sha \o ")"
                                       ELSE info.label]),
           IF a.file_sha = FILE_SHA_SEP_FILE
             THEN DictSet(sha_dict, info.filename, sha) ELSE sha_dict)
  (* the log line of a skipped file reads the local variable filename,     *)
  (* which is bound only by the loops over the command-line files          *)
  ELSE IF Len(a.files) = 0
    THEN [err |-> "UnboundLocalError", kept |-> kept, sha_dict |-> sha_dict]
  ELSE Preprocess(a, fs, Tail(infos), kept,
         IF a.file_sha = FILE_SHA_SEP_FILE
           THEN DictSet(sha_dict, info.filename, sha) ELSE sha_dict)

Preprocess(a, fs, infos, kept, sha_dict) ==
  IF infos = <<>> THEN [err |-> NoError, kept |-> kept, sha_dict |-> sha_dict]
  ELSE PreprocessOne(a, fs, infos, kept, sha_dict, infos[1],
                     PreprocessSha(a, fs, infos[1]))

(* the info dict of the hash file, read after the file was written *)
HashFileInfo(fs, sha_filename) ==
  [filename |-> sha_filename, path |-> sha_filename,
   sha256 |-> GetHash(fs, sha_filename),
   label |-> "SHA256 hash(es) for " \o fs.platform \o " file(s)\n(This file: "
             \o GetHash(fs, sha_filename) \o ")",
   mime |-> "application/json"]

(* Arguments._init_files, its end: the hash file is written and queued,   *)
(* and explicit files that all failed to resolve are an error              *)
InitFilesEnd(a, fs, file_info) ==
  IF Len(a.files) > 0 /\ Len(file_info) = 0
    THEN [args |-> Raise([a EXCEPT !.file_info = file_info], "AttributeError"), fs |-> fs]
    ELSE [args |-> [a EXCEPT !.file_info = file_info, !.stage = "files"], fs |-> fs]

WriteHashFile(fs, sha_filename, sha_dict) ==
  [fs EXCEPT !.files =
     [p \in DOMAIN fs.files \cup {sha_filename} |->
        IF p = sha_filename THEN JsonDumps(sha_dict) ELSE fs.files[p]]]

InitFilesQueueHash(a, fs1, sha_filename, kept) ==
  InitFilesEnd(a, fs1,
    IF Lower(fs1.platform) = "windows"
      THEN <<HashFileInfo(fs1, sha_filename)>> \o kept
      ELSE Append(kept, HashFileInfo(fs1, sha_filename)))

InitFilesAfterLoop(a, fs, pre) ==
  IF pre.err # NoError THEN [args |-> Raise(a, pre.err), fs |-> fs]
  ELSE IF a.file_sha = FILE_SHA_SEP_FILE
    THEN InitFilesQueueHash(a,
           WriteHashFile(fs, HashFileName(Lower(fs.platform)), pre.sha_dict),
           HashFileName(Lower(fs.platform)), pre.kept)
  ELSE InitFilesEnd(a, fs, pre.kept)

InitFilesProcess(a, fs, merged) ==
  IF Len(merged) > 0 /\ a.user_command = COMMAND_UPSERT
    THEN InitFilesAfterLoop(a, fs, Preprocess(a, fs, merged, <<>>, <<>>))
    ELSE InitFilesEnd(a, fs, merged)

InitFilesCli(a, fs, manifest, cli) ==
  IF cli.err # NoError THEN [args |-> Raise(a, cli.err), fs |-> fs]
  ELSE InitFilesProcess(a, fs, manifest \o cli.infos)

(* the entries of the files_file, then those of the GravityBee files file *)
ManifestFiles(a, fs) ==
  (IF a.files_file # NoValue /\ a.files_file \in DOMAIN fs.json
     THEN fs.json[a.files_file] ELSE <<>>)
  \o (IF GB_FILES_FILE \in DOMAIN fs.json /\ a.user_command = COMMAND_UPSERT
        THEN fs.json[GB_FILES_FILE] ELSE <<>>)

CliFiles(a, fs) ==
  IF Len(a.files) = 0 THEN [err |-> NoError, infos |-> <<>>]
  ELSE IF a.user_command = COMMAND_UPSERT THEN CliUpsertFiles(a, fs)
  ELSE [err |-> NoError, infos |-> CliDeleteFiles(a)]

(* the message of the count error is built as str + int: a TypeError *)
CountError(a) ==
  /\ Len(a.files) > 0
  /\ \/ Len(a.files) # Len(a.labels) /\ Len(a.labels) \notin {0, 1}
     \/ Len(a.files) # Len(a.mimes) /\ Len(a.mimes) \notin {0, 1}

InitFilesRead(a, fs) ==
  IF CountError(a) THEN [args |-> Raise(a, "TypeError"), fs |-> fs]
  ELSE InitFilesCli(a, fs, ManifestFiles(a, fs), CliFiles(a, fs))

(* Arguments._init_files: the result is [args, fs], fs with the hash file  *)
(* written when there is one                                               *)
InitFiles(a, fs) ==
  InitFilesRead([a EXCEPT !.files = a.kwargs.file, !.labels = a.kwargs.label,
                          !.mimes = a.kwargs.mime,
                          !.file_sha = Get(a.kwargs.file_sha, FILE_SHA_NONE),
                          !.files_file = a.kwargs.files_file], fs)

(* ----------------------------------------------------------------------- *)
(* The lookups of the resolver.  f says how the gateway answers each call: *)
(* "ok" (it answers from the remote state), "gh" (it raises a              *)
(* github.GithubException that is not a 404), "net" (the call raises an    *)
(* exception that is no GithubException, e.g. a transport error).          *)
(* ----------------------------------------------------------------------- *)
Answers == {"ok", "gh", "net"}
NoFaults == [repo |-> "ok", release |-> "ok", tags |-> "ok"]

(* Arguments._get_release: found is its return value *)
GetReleaseLookup(a, f, id) ==
  IF f.release = "net" THEN Raise(a, "TransportError")
  ELSE IF f.release = "gh" \/ id = NoRelease
    THEN [a EXCEPT !.working_release = NoRelease, !.found = FALSE]
  ELSE [a EXCEPT !.working_release = id, !.found = TRUE]

GetRelease(a, rm, f) ==
  IF f.repo = "net" THEN Raise(Called(a, "get_repo"), "TransportError")
  ELSE IF f.repo = "gh" \/ rm.repo # a.slug
    THEN Raise(Called(a, "get_repo"), "ReferenceError")
  ELSE IF a.latest
    THEN GetReleaseLookup(Called(Called(a, "get_repo"), "get_latest_release"),
                          f, GwGetLatestRelease(rm))
  ELSE GetReleaseLookup(Called(Called(a, "get_repo"), "get_release"),
                        f, GwGetRelease(rm, a.tag))

(* Arguments._find_tag: the first tag of the tag list that is named as the *)
(* working release's tag; working_tag is its name and working_tag_sha its  *)
(* commit.sha, both NoValue when there is none                             *)
FindTagIn(a, tags, i) ==
  IF i = 0 THEN [a EXCEPT !.working_tag = NoValue, !.working_tag_sha = NoValue]
  ELSE [a EXCEPT !.working_tag = tags[i].name, !.working_tag_sha = tags[i].sha]

FindTag(a, rm, f) ==
  IF f.tags # "ok"
    THEN Raise(Called(a, "get_tags"),
               IF f.tags = "gh" THEN "GithubException" ELSE "TransportError")
    ELSE FindTagIn(Called(a, "get_tags"), rm.tags,
           FirstIndex({i \in 1..Len(rm.tags) :
              rm.tags[i].name = ReleaseById(rm, a.working_release).tag_name}))

(* a transition table that recreates on a differing commit without asking *)
(* whether recreation is permitted                                        *)
InternalCommandOf_NoRecreateFlag(a) ==
  IF a.found
    THEN IF a.user_command = COMMAND_UPSERT
           THEN IF /\ a.working_tag # NoValue
                   /\ a.target_commitish # NoValue
                   /\ a.working_tag_sha # a.target_commitish
                  THEN CMD_RECREATE
                  ELSE CMD_UPDATE
         ELSE IF Len(a.file_info) > 0 /\ a.user_command = COMMAND_DELETE
           THEN CMD_DELETE_FILE
         ELSE CMD_DELETE_REL
    ELSE IF a.user_command = COMMAND_DELETE
           THEN CMD_DELETE_TAG
           ELSE CMD_CREATE

(* a transition table that recreates without a commit to recreate at *)
InternalCommandOf_RecreateWithoutCommit(a) ==
  IF a.found
    THEN IF a.user_command = COMMAND_UPSERT
           THEN IF /\ a.working_tag # NoValue
                   /\ a.working_tag_sha # a.target_commitish
                   /\ a.recreate
                  THEN CMD_RECREATE
                  ELSE CMD_UPDATE
         ELSE IF Len(a.file_info) > 0 /\ a.user_command = COMMAND_DELETE
           THEN CMD_DELETE_FILE
         ELSE CMD_DELETE_REL
    ELSE IF a.user_command = COMMAND_DELETE
           THEN CMD_DELETE_TAG
           ELSE CMD_CREATE

(* Arguments._init_internal_command *)
InternalCommandOf(a) ==
  IF a.found
    THEN IF a.user_command = COMMAND_UPSERT
           THEN IF /\ a.working_tag # NoValue
                   /\ a.target_commitish # NoValue
                   /\ a.working_tag_sha # a.target_commitish
                   /\ a.recreate
                  THEN CMD_RECREATE
                  ELSE CMD_UPDATE
         ELSE IF Len(a.file_info) > 0 /\ a.user_command = COMMAND_DELETE
           THEN CMD_DELETE_FILE
         ELSE CMD_DELETE_REL
    ELSE IF a.user_command = COMMAND_DELETE
           THEN CMD_DELETE_TAG
           ELSE CMD_CREATE

InitInternalCommandSet(a) ==
  IF a.err # NoError THEN a
  ELSE [a EXCEPT !.internal_command = InternalCommandOf(a), !.stage = "command"]

(* a command resolution that reads the tag list for every found release *)
InitInternalCommandTag_AlwaysTags(a, rm, f) ==
  IF a.err # NoError THEN a
  ELSE IF a.found
    THEN InitInternalCommandSet(FindTag(a, rm, f))
  ELSE InitInternalCommandSet(a)

InitInternalCommandTag(a, rm, f) ==
  IF a.err # NoError THEN a
  ELSE IF a.found /\ a.user_command = COMMAND_UPSERT
    THEN InitInternalCommandSet(FindTag(a, rm, f))
  ELSE InitInternalCommandSet(a)

InitInternalCommand(a, rm, f) == InitInternalCommandTag(GetRelease(a, rm, f), rm, f)

(* release data of an update that restart from the defaults of a new    *)
(* release instead of the remote release's values                       *)
InitData_Blank(a, rm) ==
  [a EXCEPT
     !.pre = GetFlag(a.kwargs.pre, FALSE),
     !.draft = GetFlag(a.kwargs.draft, FALSE),
     !.body = IF a.kwargs.body = NoValue THEN "Release " \o Get(a.tag, "")
              ELSE SafeSubstitute(a.kwargs.body, a.gb_subs),
     !.rel_name = IF a.kwargs.rel_name = NoValue THEN Get(a.tag, "")
                  ELSE SafeSubstitute(a.kwargs.rel_name, a.gb_subs),
     !.stage = "data"]

(* Arguments._init_data: only when a release will be updated *)
InitData(a, rm) ==
  LET rel == ReleaseById(rm, a.working_release)
  IN [a EXCEPT
        !.tag = IF a.latest THEN Get(a.kwargs.tag, rel.tag_name) ELSE a.tag,
        !.pre = GetFlag(a.kwargs.pre, rel.prerelease),
        !.draft = GetFlag(a.kwargs.draft, rel.draft),
        !.body = IF a.kwargs.body = NoValue THEN rel.body
                 ELSE SafeSubstitute(a.kwargs.body, a.gb_subs),
        !.rel_name = IF a.kwargs.rel_name = NoValue THEN rel.title
                     ELSE SafeSubstitute(a.kwargs.rel_name, a.gb_subs),
        !.stage = "data"]

(* release data of a creation whose default body is the bare tag *)
InitDataBlank_BareBody(a) ==
  LET a1 == [a EXCEPT !.pre = GetFlag(a.kwargs.pre, FALSE),
                      !.draft = GetFlag(a.kwargs.draft, FALSE)]
  IN IF a.kwargs.body = NoValue /\ a.tag = NoValue
       THEN Raise(a1, "TypeError")
       ELSE [a1 EXCEPT
               !.body = IF a.kwargs.body = NoValue THEN a.tag
                        ELSE SafeSubstitute(a.kwargs.body, a.gb_subs),
               !.rel_name = IF a.kwargs.rel_name = NoValue THEN a.tag
                            ELSE SafeSubstitute(a.kwargs.rel_name, a.gb_subs),
               !.stage = "data"]

(* Arguments._init_data_blank: only when a release is created; "Release "  *)
(* + tag is a TypeError when the tag is None                               *)
InitDataBlank(a) ==
  LET a1 == [a EXCEPT !.pre = GetFlag(a.kwargs.pre, FALSE),
                      !.draft = GetFlag(a.kwargs.draft, FALSE)]
  IN IF a.kwargs.body = NoValue /\ a.tag = NoValue
       THEN Raise(a1, "TypeError")
       ELSE [a1 EXCEPT
               !.body = IF a.kwargs.body = NoValue THEN "Release " \o a.tag
                        ELSE SafeSubstitute(a.kwargs.body, a.gb_subs),
               !.rel_name = IF a.kwargs.rel_name = NoValue THEN a.tag
                            ELSE SafeSubstitute(a.kwargs.rel_name, a.gb_subs),
               !.stage = "data"]

(* Arguments.__init__: the result is [args, fs] *)
ConstructEnd(a, fs) ==
  IF a.err # NoError THEN [args |-> a, fs |-> fs]
  ELSE [args |-> [a EXCEPT !.stage = "done"], fs |-> fs]

ConstructData(a, fs, rm) ==
  IF a.err # NoError THEN [args |-> a, fs |-> fs]
  ELSE IF a.internal_command = CMD_CREATE THEN ConstructEnd(InitDataBlank(a), fs)
  ELSE IF a.internal_command \in {CMD_UPDATE, CMD_RECREATE}
    THEN ConstructEnd(InitData(a, rm), fs)
  ELSE ConstructEnd(a, fs)

ConstructCommand(a, fs, rm, f) ==
  IF a.err # NoError THEN [args |-> a, fs |-> fs]
  ELSE ConstructData(InitInternalCommand(a, rm, f), fs, rm)

ConstructTag(r, env, rm, f) ==
  IF r.args.err # NoError THEN r
  ELSE ConstructCommand(InitTag(r.args, env), r.fs, rm, f)

ConstructFiles(a, env, fs, rm, f) ==
  IF a.err # NoError THEN [args |-> a, fs |-> fs]
  ELSE ConstructTag(InitFiles(InitGbInfo(a, fs), fs), env, rm, f)

Construct(raw, env, fs, rm, f) ==
  ConstructFiles(InitBasic(NewArgs(CleanKwargs(raw)), env), env, fs, rm, f)

(* ----------------------------------------------------------------------- *)
(* Inputs: raw keyword maps, environments, file systems, remote states     *)
(* ----------------------------------------------------------------------- *)
BaseRaw ==
  [token |-> "tok", command |-> NoValue, slug |-> "o/r", repo |-> NoValue,
   user |-> NoValue, tag |-> "v1", commitish |-> "c1", body |-> NoValue,
   rel_name |-> NoValue, file_sha |-> NoValue, files_file |-> NoValue,
   latest |-> <<>>, recreate |-> <<>>, force |-> <<>>, include_tag |-> <<>>,
   pre |-> <<>>, draft |-> <<>>, file |-> <<>>, label |-> <<>>, mime |-> <<>>]

NoEnv ==
  [TRAVIS_REPO_SLUG |-> NoValue, APPVEYOR_REPO_NAME |-> NoValue,
   TRAVIS_COMMIT |-> NoValue, APPVEYOR_REPO_COMMIT |-> NoValue,
   TRAVIS_TAG |-> NoValue, APPVEYOR_REPO_TAG_NAME |-> NoValue]

(* CI environments: Travis, AppVeyor, and one whose slug has no separator *)
EnvSet ==
  {NoEnv,
   [NoEnv EXCEPT !.TRAVIS_REPO_SLUG = "o/r", !.TRAVIS_COMMIT = "c2", !.TRAVIS_TAG = "v1"],
   [NoEnv EXCEPT !.APPVEYOR_REPO_NAME = "o/r", !.APPVEYOR_REPO_COMMIT = "c2",
                 !.APPVEYOR_REPO_TAG_NAME = "v2"],
   [NoEnv EXCEPT !.TRAVIS_REPO_SLUG = "badslug", !.APPVEYOR_REPO_NAME = "o/r"]}

BaseFs ==
  [files |-> [p \in {"a.zip", "b.zip"} |-> IF p = "a.zip" THEN "xx" ELSE "yyy"],
   json |-> <<>>, gb_info |-> <<>>, platform |-> "Linux"]

GbFs == [BaseFs EXCEPT !.gb_info = [k \in {"app_version"} |-> "1"]]

Release(id, tag, title, body, pre, draft, assets) ==
  [id |-> id, tag_name |-> tag, title |-> title, body |-> body,
   prerelease |-> pre, draft |-> draft, assets |-> assets]

TagV1 == [name |-> "v1", sha |-> "c1"]
TagV2 == [name |-> "v2", sha |-> "c2"]

EmptyRemote == [repo |-> "o/r", releases |-> <<>>, tags |-> <<>>, nextId |-> 1]

(* remote states a resolution can meet: no release; a tag without release; *)
(* a published release with its tag; a prerelease draft whose tag is not   *)
(* in the tag list; two releases, the older one with an asset              *)
RemoteSet ==
  {EmptyRemote,
   [EmptyRemote EXCEPT !.tags = <<TagV1>>],
   [EmptyRemote EXCEPT !.tags = <<TagV1>>, !.nextId = 2,
      !.releases = <<Release(1, "v1", "Old", "Old body", FALSE, FALSE, <<>>)>>],
   [EmptyRemote EXCEPT !.nextId = 2,
      !.releases = <<Release(1, "v1", "Old", "Old body", TRUE, TRUE, <<>>)>>],
   [EmptyRemote EXCEPT !.tags = <<TagV2, TagV1>>, !.nextId = 3,
      !.releases = <<Release(1, "v1", "Old", "Old body", FALSE, FALSE,
                             <<[name |-> "a.zip", size |-> 2]>>),
                     Release(2, "v2", "Two", "Second", FALSE, FALSE, <<>>)>>]}

(* a repository whose release v1 carries the tag v1 *)
RemoteV1 ==
  [EmptyRemote EXCEPT !.tags = <<TagV1>>, !.nextId = 2,
     !.releases = <<Release(1, "v1", "Old", "Old body", FALSE, FALSE, <<>>)>>]

(* how the gateway answers the lookups of a resolution *)
FaultSet ==
  {NoFaults,
   [NoFaults EXCEPT !.repo = "gh"], [NoFaults EXCEPT !.repo = "net"],
   [NoFaults EXCEPT !.release = "gh"], [NoFaults EXCEPT !.release = "net"],
   [NoFaults EXCEPT !.tags = "gh"]}

(* raw keyword maps of the resolver: identity and authentication *)
RawIdentity ==
  {[token |-> t, command |-> c, slug |-> s, user |-> u, repo |-> r] @@ BaseRaw :
     t \in {NoValue, "", " ", "tok"}, c \in {NoValue, "delete", "bogus"},
     s \in {NoValue, "badslug", "o/r", "'o/r'"}, u \in {NoValue, "o"}, r \in {NoValue, "r"}}

(* raw keyword maps of the resolver: target, command and release data *)
RawTarget ==
  {[token |-> t, command |-> c, tag |-> g, latest |-> l, recreate |-> rc,
    commitish |-> ci, body |-> b, rel_name |-> n, pre |-> p, draft |-> d,
    file |-> fl] @@ BaseRaw :
     t \in {NoValue, "tok"}, c \in {NoValue, "delete"}, g \in {NoValue, "v1"},
     l \in {<<>>, <<TRUE>>}, rc \in {<<>>, <<TRUE>>}, ci \in {NoValue, "c1", "c2"},
     b \in {NoValue, "B"}, n \in {NoValue, "T"}, p \in {<<>>, <<FALSE>>, <<TRUE>>},
     d \in {<<>>, <<TRUE>>}, fl \in {<<>>, <<"a.zip">>}}

(* raw keyword maps of the resolver: tag spellings against the CI fallbacks *)
RawTags ==
  {[tag |-> g, latest |-> l, command |-> c] @@ BaseRaw :
     g \in {NoValue, "", " v1 ", "\"v1\"", "v2", "v$gb_pkg_ver"},
     l \in {<<>>, <<FALSE>>, <<TRUE>>}, c \in {NoValue, "delete"}}

ResolveInputs ==
  {[raw |-> r, env |-> e, fs |-> BaseFs, faults |-> NoFaults] :
     r \in RawIdentity, e \in EnvSet}
  \cup {[raw |-> r, env |-> e, fs |-> f, faults |-> NoFaults] :
          r \in RawTags, e \in EnvSet, f \in {BaseFs, GbFs}}
  \cup {[raw |-> r, env |-> NoEnv, fs |-> BaseFs, faults |-> NoFaults] : r \in RawTarget}
  \cup {[raw |-> r, env |-> NoEnv, fs |-> BaseFs, faults |-> f] :
          r \in {[command |-> c, latest |-> l, tag |-> g] @@ BaseRaw :
                   c \in {NoValue, "delete"}, l \in {<<>>, <<TRUE>>}, g \in {NoValue, "v1"}},
          f \in FaultSet}

(* the invocations whose execution is followed: creations, updates and     *)
(* recreations, with and without files                                     *)
RawUpserts ==
  {[tag |-> g, latest |-> l, recreate |-> rc, commitish |-> ci, rel_name |-> n,
    body |-> b, file |-> fl] @@ BaseRaw :
     g \in {NoValue, "v1"}, l \in {<<TRUE>>}, rc \in {<<>>, <<TRUE>>},
     ci \in {"c1", "c2"}, n \in {NoValue, "T"}, b \in {NoValue, "B"},
     fl \in {<<>>, <<"a.zip">>}}

(* deletions of files, releases and tags *)
RawDeletes ==
  {[command |-> "delete", tag |-> g, force |-> f, include_tag |-> it, file |-> fl]
     @@ BaseRaw :
     g \in {"v1", "v*"}, f \in {<<>>, <<TRUE>>}, it \in {<<>>, <<TRUE>>},
     fl \in {<<>>, <<"b.zip">>, <<"a.zip", "b.zip">>}}

(* recreations, and updates at the commit of the tag, under each spelling  *)
(* of force and include_tag                                                *)
RawRecreates ==
  {[tag |-> "v1", recreate |-> <<TRUE>>, commitish |-> ci, force |-> f,
    include_tag |-> it, file |-> <<"a.zip">>] @@ BaseRaw :
     ci \in {"c1", "c2"}, f \in {<<FALSE>>, <<TRUE>>}, it \in {<<FALSE>>, <<TRUE>>}}

(* upserts that name no commit *)
RawNoCommit ==
  {[commitish |-> NoValue, recreate |-> rc, file |-> fl] @@ BaseRaw :
     rc \in {<<>>, <<TRUE>>}, fl \in {<<>>, <<"a.zip">>}}

(* uploads of two files, a file in a directory, a glob of files *)
RawUploads ==
  {[file |-> fl, commitish |-> ci] @@ BaseRaw :
     fl \in {<<"a.zip">>, <<"a.zip", "b.zip">>, <<"*.zip">>}, ci \in {NoValue, "c1"}}

(* upserts that set the draft or prerelease flag of the latest release and *)
(* upload two files, and updates of the release of a tag that supply the   *)
(* flags as false or true                                                  *)
RawFlags ==
  {[latest |-> <<TRUE>>, tag |-> NoValue, draft |-> d, pre |-> p,
    file |-> <<"a.zip", "b.zip">>] @@ BaseRaw :
     d \in {<<>>, <<TRUE>>}, p \in {<<>>, <<TRUE>>}}
  \cup {[draft |-> d, pre |-> p] @@ BaseRaw :
          d \in {<<>>, <<FALSE>>}, p \in {<<FALSE>>, <<TRUE>>}}

ExecInputs ==
  {[raw |-> r, env |-> NoEnv, fs |-> BaseFs, faults |-> NoFaults] :
     r \in RawUpserts \cup RawDeletes \cup RawRecreates \cup RawNoCommit \cup RawFlags}
  \cup {[raw |-> [file |-> <<"a.zip">>] @@ BaseRaw, env |-> NoEnv, fs |-> BaseFs,
         faults |-> [NoFaults EXCEPT !.release = "gh"]]}

UploadInputs ==
  {[raw |-> r, env |-> NoEnv, fs |-> BaseFs, faults |-> NoFaults] : r \in RawUploads}
  \cup {[raw |-> [latest |-> <<TRUE>>, tag |-> NoValue, file |-> <<"a.zip">>] @@ BaseRaw,
         env |-> NoEnv, fs |-> BaseFs, faults |-> NoFaults]}

(* file systems of the file resolution: a second a.zip in a directory, a   *)
(* files_file and a GravityBee files file that each name a file that is    *)
(* there and one that is gone, and the other platform                      *)
DistFs ==
  [BaseFs EXCEPT !.files =
     [p \in {"a.zip", "b.zip", "dist/a.zip"} |->
        IF p = "a.zip" THEN "xx" ELSE IF p = "b.zip" THEN "yyy" ELSE "z"]]

ManifestInfo(path, label) ==
  [filename |-> Basename(path), path |-> path, label |-> label, mime |-> NoValue,
   sha256 |-> NoValue]

ManifestFs ==
  [BaseFs EXCEPT !.json =
     [f \in {"files.json", GB_FILES_FILE} |->
        IF f = "files.json"
          THEN <<ManifestInfo("gone.zip", "G"), ManifestInfo("b.zip", "B")>>
          ELSE <<ManifestInfo("a.zip", "A"), ManifestInfo("lost.zip", "X")>>]]

GoneFs ==
  [BaseFs EXCEPT !.json = [f \in {"files.json"} |-> <<ManifestInfo("gone.zip", "G")>>]]

WinFs == [BaseFs EXCEPT !.platform = "Windows"]

(* raw keyword maps of the file resolution: patterns, labels, MIME types,  *)
(* hash mode and files_file, for uploads and deletions                     *)
RawFiles ==
  {[command |-> c, file |-> fl, label |-> lb, mime |-> mi, file_sha |-> sh,
    files_file |-> ff] @@ BaseRaw :
     c \in {NoValue, "delete"},
     fl \in {<<>>, <<"a.zip">>, <<"a.zip", "b.zip">>, <<"*.zip">>, <<"*">>,
             <<"missing.zip">>, <<"missing.zip", "b.zip">>, <<"*.zip", "dist/a.zip">>},
     lb \in {<<>>, <<"L">>, <<"L1", "L2">>, <<"L1", "L2", "L3">>},
     mi \in {<<>>, <<"m">>, <<"m1", "m2">>},
     sh \in {NoValue, FILE_SHA_SEP_FILE, FILE_SHA_LABEL},
     ff \in {NoValue, "files.json"}}

FileInputs ==
  {[raw |-> r, env |-> NoEnv, fs |-> f, faults |-> NoFaults] :
     r \in RawFiles, f \in {BaseFs, DistFs, ManifestFs, GoneFs, WinFs}}

(* the remote states an upload can meet: those of a resolution, and a      *)
(* release that has an asset for each of the two files already            *)
UploadRemotes ==
  RemoteSet \cup
  {[EmptyRemote EXCEPT !.tags = <<TagV1>>, !.nextId = 2,
      !.releases = <<Release(1, "v1", "Old", "Old body", FALSE, FALSE,
                             <<[name |-> "a.zip", size |-> 2],
                               [name |-> "b.zip", size |-> 1]>>)>>]}

(* the keyword maps of a later invocation *)
NextRaws ==
  {[command |-> c, recreate |-> rc, commitish |-> ci] @@ BaseRaw :
     c \in {NoValue, "delete"}, rc \in {<<>>, <<TRUE>>}, ci \in {"c1", "c2"}}

(* the number of invocations that are followed *)
MaxInvocations == 2

(* ----------------------------------------------------------------------- *)
(* Mutations of the remote state (the PyGithub calls of ReleaseMgr)        *)
(* ----------------------------------------------------------------------- *)
NoAsset == [name |-> NoValue, size |-> 0]

AllBut(s, i) == Pick(s, (1..Len(s)) \ {i})

(* a release deletion that leaves the release *)
GwDeleteRelease_Keep(rm, id) == rm

(* GitRelease.delete_release() *)
GwDeleteRelease(rm, id) ==
  [rm EXCEPT !.releases = AllBut(rm.releases, ReleaseIndex(rm, id))]

TagNames(rm) == [i \in 1..Len(rm.tags) |-> rm.tags[i].name]

(* a creation that sends the title in the place of the message *)
GwCreateRelease_TitleAsBody(rm, tag, title, body, draft, pre, commitish) ==
  [rm EXCEPT
     !.releases = Append(@, Release(rm.nextId, tag, title, title, pre, draft, <<>>)),
     !.nextId = @ + 1,
     !.tags = IF draft \/ tag \in {rm.tags[i].name : i \in 1..Len(rm.tags)}
                THEN @ ELSE Append(@, [name |-> tag, sha |-> commitish])]

(* repo.create_git_release(tag, name, message, draft, prerelease,          *)
(* target_commitish): the release gets the next id; a published release    *)
(* whose tag does not exist yet creates the tag at target_commitish        *)
GwCreateRelease(rm, tag, title, body, draft, pre, commitish) ==
  [rm EXCEPT
     !.releases = Append(@, Release(rm.nextId, tag, title, body, pre, draft, <<>>)),
     !.nextId = @ + 1,
     !.tags = IF draft \/ tag \in {rm.tags[i].name : i \in 1..Len(rm.tags)}
                THEN @ ELSE Append(@, [name |-> tag, sha |-> commitish])]

(* GitRelease.update_release(name, message, draft, prerelease) *)
GwUpdateRelease(rm, id, title, body, draft, pre) ==
  [rm EXCEPT !.releases[ReleaseIndex(rm, id)] =
     [@ EXCEPT !.title = title, !.body = body, !.draft = draft, !.prerelease = pre]]

AssetsOf(rm, id) == ReleaseById(rm, id).assets

AssetIndex(assets, name) == FirstIndex({i \in 1..Len(assets) : assets[i].name = name})

(* a deletion that empties the asset list of the release *)
GwDeleteAsset_All(rm, id, i) ==
  [rm EXCEPT !.releases[ReleaseIndex(rm, id)].assets = <<>>]

(* GitReleaseAsset.delete_asset() of the asset at index i *)
GwDeleteAsset(rm, id, i) ==
  [rm EXCEPT !.releases[ReleaseIndex(rm, id)].assets = AllBut(@, i)]

(* what an upload leaves on the release: nothing (stored < 0) or an asset  *)
(* of the stored size                                                      *)
GwStoreAsset(rm, id, name, stored) ==
  IF stored < 0 THEN rm
  ELSE [rm EXCEPT !.releases[ReleaseIndex(rm, id)].assets =
          Append(@, [name |-> name, size |-> stored])]

(* git push --delete origin <name>; pushed says whether git succeeded *)
GitPushDelete(rm, name, pushed) ==
  IF pushed
    THEN [rm EXCEPT !.tags = Pick(@, {i \in 1..Len(rm.tags) : rm.tags[i].name # name})]
    ELSE rm

(* ReleaseMgr._find_release_asset(filename): the first asset of that name, *)
(* NoAsset when there is none                                              *)
FoundAsset(assets, i) == IF i = 0 THEN NoAsset ELSE assets[i]

FindReleaseAsset(rm, id, filename) ==
  FoundAsset(AssetsOf(rm, id), AssetIndex(AssetsOf(rm, id), filename))

(* the exception a failing gateway call raises *)
ExcOf(o) == IF o = "net" THEN "TransportError" ELSE "GithubException"

(* ----------------------------------------------------------------------- *)
(* ReleaseMgr._upload_file: the decisions of the retry loop.               *)
(* u = [idx      : the index in file_info of the file being worked on,     *)
(*      phase    : the position in _upload_file,                           *)
(*      attempts, success, error : its local variables (error NoError      *)
(*                 for None),                                              *)
(*      asset    : release_asset (NoAsset for None),                       *)
(*      size     : complete_filesize,                                      *)
(*      calls    : the upload calls made for the file,                     *)
(*      returned : what the upload call of the attempt returned,           *)
(*      listed   : the assets the lookup of _handle_upload_error saw,       *)
(*      seen     : the last error an attempt for the file caught]          *)
(* ----------------------------------------------------------------------- *)
IdleUpload ==
  [idx |-> 0, phase |-> "idle", attempts |-> 0, success |-> FALSE,
   error |-> NoError, asset |-> NoAsset, size |-> 0, calls |-> 0,
   returned |-> NoAsset, listed |-> <<>>, seen |-> NoError]

(* the errors after which the asset list is looked at again *)
ReconcileFamily == {"BrokenPipeError", "timeout", "ConnectionAbortedError"}

(* what an upload call can raise *)
UploadErrors == ReconcileFamily \cup {"GithubException", "OSError"}

(* the outcomes of working_release.upload_asset: the gateway rejects a     *)
(* name that is already on the release; otherwise it returns the asset     *)
(* (err = NoError), complete or short, or it raises, having stored         *)
(* nothing, a part or all of the file                                      *)
UploadOutcomes(rm, id, name, size, unreliable) ==
  IF id \notin ReleaseIds(rm) \/ AssetIndex(AssetsOf(rm, id), name) # 0
    THEN {[err |-> "GithubException", stored |-> 0 - 1]}
  ELSE IF ~unreliable THEN {[err |-> NoError, stored |-> size]}
  ELSE {[err |-> NoError, stored |-> s] : s \in {size - 1, size}}
       \cup {[err |-> e, stored |-> s] : e \in UploadErrors, s \in {0 - 1, size - 1, size}}

(* what the upload call hands back: the asset, None when it raised *)
UploadedAsset(name, out) ==
  IF out.err = NoError THEN [name |-> name, size |-> out.stored] ELSE NoAsset

(* a test after an attempt that takes any returned asset for a success *)
DirectSuccess_AnySize(u) == u.error = NoError /\ u.asset # NoAsset

(* the test after an attempt: no error and an asset of the complete size *)
DirectSuccess(u) ==
  u.error = NoError /\ u.asset # NoAsset /\ u.asset.size = u.size

(* ReleaseMgr._handle_upload_error, after its lookup: the asset found      *)
(* counts when its size is the complete size                               *)
Reconciled(found, size) ==
  IF found # NoAsset /\ found.size = size THEN found ELSE NoAsset

(* a retry loop that goes round once more than the limit *)
NextPhase_OneMore(attempts, success) ==
  IF attempts <= MAX_UPLOAD_ATTEMPTS /\ ~success THEN "attempt" ELSE "end"

(* the while condition of the retry loop *)
NextPhase(attempts, success) ==
  IF attempts < MAX_UPLOAD_ATTEMPTS /\ ~success THEN "attempt" ELSE "end"

(* what _upload_file raises when no attempt succeeded *)
FinalError(u) == IF u.error # NoError THEN u.error ELSE "ConnectionError"

(* a dispatch whose recreation leaves the tag where it is *)
Steps_KeepTag(cmd) ==
  CASE cmd = CMD_DELETE_FILE -> <<"delete_file">>
    [] cmd = CMD_DELETE_REL  -> <<"delete_release", "delete_tag">>
    [] cmd = CMD_DELETE_TAG  -> <<"delete_tag">>
    [] cmd = CMD_RECREATE    -> <<"delete_release", "create_release", "upload_files">>
    [] cmd = CMD_CREATE      -> <<"create_release", "upload_files">>
    [] cmd = CMD_UPDATE      -> <<"update_release", "upload_files">>
    [] OTHER                 -> <<>>

(* a dispatch whose release deletion cleans the tag before the release *)
Steps_TagFirst(cmd) ==
  CASE cmd = CMD_DELETE_FILE -> <<"delete_file">>
    [] cmd = CMD_DELETE_REL  -> <<"delete_tag", "delete_release">>
    [] cmd = CMD_DELETE_TAG  -> <<"delete_tag">>
    [] cmd = CMD_RECREATE    -> <<"delete_release", "delete_tag", "create_release",
                                  "upload_files">>
    [] cmd = CMD_CREATE      -> <<"create_release", "upload_files">>
    [] cmd = CMD_UPDATE      -> <<"update_release", "upload_files">>
    [] OTHER                 -> <<>>

(* ReleaseMgr.execute: the steps of each internal command *)
Steps(cmd) ==
  CASE cmd = CMD_DELETE_FILE -> <<"delete_file">>
    [] cmd = CMD_DELETE_REL  -> <<"delete_release", "delete_tag">>
    [] cmd = CMD_DELETE_TAG  -> <<"delete_tag">>
    [] cmd = CMD_RECREATE    -> <<"delete_release", "delete_tag", "create_release",
                                  "upload_files">>
    [] cmd = CMD_CREATE      -> <<"create_release", "upload_files">>
    [] cmd = CMD_UPDATE      -> <<"update_release", "upload_files">>
    [] OTHER                 -> <<>>

(* an entry of the log of remote operations *)
Ev(op, arg, n) == [op |-> op, arg |-> arg, n |-> n]

(* ----------------------------------------------------------------------- *)
(* State                                                                   *)
(* ----------------------------------------------------------------------- *)
VARIABLES
  raw,      (* the keyword map the invocation was called with *)
  env,      (* its environment variables *)
  faults,   (* how the gateway answers the lookups of its resolution *)
  fs,       (* the local file system *)
  remote,   (* the remote state of the gateway *)
  args,     (* the Arguments object *)
  pc,       (* "start", "resolved", "executing", "done", "failed" *)
  exc,      (* the exception that ended the invocation, NoError if none *)
  flaky,    (* whether the gateway calls of the execution can fail *)
  todo,     (* the steps of execute() still to run *)
  tagq,     (* _delete_tag: the tags of the tag list still to visit *)
  up,       (* the loops over file_info and the retry loop of _upload_file *)
  log,      (* the remote operations of this invocation, in order *)
  inv,      (* the number of invocations started *)
  prev      (* how the previous invocation ended, and the remote state this *)
            (* invocation started from                                      *)

vars == <<raw, env, faults, fs, remote, args, pc, exc, flaky, todo, tagq, up, log,
          inv, prev>>

NoPrev ==
  [pc |-> "none", internal_command |-> NoValue, slug |-> NoValue, tag |-> NoValue,
   rel_name |-> NoValue, body |-> NoValue, remote |-> EmptyRemote, first |-> <<>>]

(* a resolution that creates at once the release it did not find *)
Resolve_Creating ==
  /\ pc = "start"
  /\ LET r == Construct(raw, env, fs, remote, faults)
     IN /\ args' = r.args
        /\ fs' = r.fs
        /\ exc' = r.args.err
        /\ pc' = IF r.args.err = NoError THEN "resolved" ELSE "failed"
        /\ remote' = IF r.args.internal_command = CMD_CREATE /\ r.args.tag # NoValue
                       THEN GwCreateRelease(remote, r.args.tag, r.args.tag, "", FALSE,
                                            FALSE, "c1")
                       ELSE remote
  /\ UNCHANGED <<raw, env, faults, flaky, todo, tagq, up, log, inv, prev>>

(* Arguments.__init__ on the keyword map raw: the construction of the Operation *)
Resolve ==
  /\ pc = "start"
  /\ LET r == Construct(raw, env, fs, remote, faults)
     IN /\ args' = r.args
        /\ fs' = r.fs
        /\ exc' = r.args.err
        /\ pc' = IF r.args.err = NoError THEN "resolved" ELSE "failed"
  /\ UNCHANGED <<raw, env, faults, remote, flaky, todo, tagq, up, log, inv, prev>>

(* the answers of a gateway call of the execution *)
CallOutcomes == IF flaky THEN Answers ELSE {"ok"}

(* the answers of the lookups of a refresh *)
RefreshFaults ==
  IF flaky THEN {[NoFaults EXCEPT !.repo = r, !.release = l] :
                   r \in Answers, l \in Answers}
  ELSE {NoFaults}

Running(step) == pc = "executing" /\ todo # <<>> /\ Head(todo) = step

(* ReleaseMgr.execute: the dispatch on the internal command *)
Execute ==
  /\ pc = "resolved"
  /\ pc' = "executing"
  /\ todo' = Steps(args.internal_command)
  /\ UNCHANGED <<raw, env, faults, fs, remote, args, exc, flaky, tagq, up, log, inv, prev>>

(* execute() returns *)
Finish ==
  /\ pc = "executing" /\ todo = <<>>
  /\ pc' = "done"
  /\ UNCHANGED <<raw, env, faults, fs, remote, args, exc, flaky, todo, tagq, up, log,
                 inv, prev>>

(* ReleaseMgr._delete_release *)
DeleteRelease ==
  /\ Running("delete_release")
  /\ \E o \in CallOutcomes :
       IF o = "ok" /\ args.working_release \in ReleaseIds(remote)
         THEN /\ remote' = GwDeleteRelease(remote, args.working_release)
              /\ log' = Append(log, Ev("delete_release",
                                       ReleaseById(remote, args.working_release).tag_name,
                                       args.working_release))
              /\ todo' = Tail(todo)
              /\ UNCHANGED <<pc, exc>>
         ELSE /\ pc' = "failed" /\ exc' = ExcOf(o)
              /\ UNCHANGED <<remote, log, todo>>
  /\ UNCHANGED <<raw, env, faults, fs, args, flaky, tagq, up, inv, prev>>

(* ReleaseMgr._delete_tag up to the loop: nothing to do unless the command *)
(* is the tag deletion or the tag is included; else the tag list is read   *)
DeleteTag ==
  /\ Running("delete_tag")
  /\ \E o \in CallOutcomes :
       IF ~(args.internal_command = CMD_DELETE_TAG \/ args.include_tag)
         THEN /\ todo' = Tail(todo)
              /\ UNCHANGED <<tagq, pc, exc>>
       ELSE IF o = "ok"
         THEN /\ tagq' = TagNames(remote)
              /\ todo' = <<"delete_tag_loop">> \o Tail(todo)
              /\ UNCHANGED <<pc, exc>>
         ELSE /\ pc' = "failed" /\ exc' = ExcOf(o)
              /\ UNCHANGED <<tagq, todo>>
  /\ UNCHANGED <<raw, env, faults, fs, remote, args, flaky, up, log, inv, prev>>

(* a tag deletion that does not ask whether force was requested *)
DeleteTagMatch_AlwaysForce(name, rel, o, d, pushed) ==
  IF o # "ok"
    THEN /\ pc' = "failed" /\ exc' = ExcOf(o)
         /\ UNCHANGED <<remote, log, tagq>>
  ELSE IF rel # NoRelease /\ d # "ok"
    THEN /\ pc' = "failed" /\ exc' = ExcOf(d)
         /\ UNCHANGED <<remote, log, tagq>>
  ELSE /\ remote' = GitPushDelete(IF rel # NoRelease THEN GwDeleteRelease(remote, rel)
                                  ELSE remote, name, pushed)
       /\ log' = log \o (IF rel # NoRelease THEN <<Ev("delete_release", name, rel)>>
                         ELSE <<>>)
                     \o (IF pushed THEN <<Ev("delete_tag", name, 0)>> ELSE <<>>)
       /\ tagq' = Tail(tagq)
       /\ UNCHANGED <<pc, exc>>

(* one tag that matches: o answers repo.get_release(name), d answers       *)
(* release.delete_release(), pushed says whether git push --delete worked  *)
(* (what git tag --delete does to the local clone is not part of the       *)
(* state); rel is the release of the tag, NoRelease for a 404              *)
DeleteTagMatch(name, rel, o, d, pushed) ==
  IF o # "ok"
    THEN /\ pc' = "failed" /\ exc' = ExcOf(o)
         /\ UNCHANGED <<remote, log, tagq>>
  ELSE IF rel # NoRelease /\ ~args.force
    THEN /\ tagq' = Tail(tagq)
         /\ UNCHANGED <<remote, log, pc, exc>>
  ELSE IF rel # NoRelease /\ d # "ok"
    THEN /\ pc' = "failed" /\ exc' = ExcOf(d)
         /\ UNCHANGED <<remote, log, tagq>>
  ELSE /\ remote' = GitPushDelete(IF rel # NoRelease THEN GwDeleteRelease(remote, rel)
                                  ELSE remote, name, pushed)
       /\ log' = log \o (IF rel # NoRelease THEN <<Ev("delete_release", name, rel)>>
                         ELSE <<>>)
                     \o (IF pushed THEN <<Ev("delete_tag", name, 0)>> ELSE <<>>)
       /\ tagq' = Tail(tagq)
       /\ UNCHANGED <<pc, exc>>

(* ReleaseMgr._delete_tag: one iteration of the loop over the tag list;    *)
(* fnmatch of a tag that is None is a TypeError                            *)
DeleteTagLoop ==
  /\ Running("delete_tag_loop")
  /\ IF tagq = <<>>
       THEN /\ todo' = Tail(todo)
            /\ UNCHANGED <<remote, log, tagq, pc, exc>>
     ELSE IF args.tag = NoValue
       THEN /\ pc' = "failed" /\ exc' = "TypeError"
            /\ UNCHANGED <<remote, log, tagq, todo>>
     ELSE IF ~FnMatch(Head(tagq), args.tag)
       THEN /\ tagq' = Tail(tagq)
            /\ UNCHANGED <<remote, log, todo, pc, exc>>
     ELSE /\ \E o \in CallOutcomes, d \in CallOutcomes,
                pushed \in (IF flaky THEN BOOLEAN ELSE {TRUE}) :
                  DeleteTagMatch(Head(tagq), GwGetRelease(remote, Head(tagq)), o, d, pushed)
          /\ UNCHANGED todo
  /\ UNCHANGED <<raw, env, faults, fs, args, flaky, up, inv, prev>>

(* ReleaseMgr._create_release: the gateway rejects a tag that is None and  *)
(* a tag that has a release already                                        *)
CreateRelease ==
  /\ Running("create_release")
  /\ \E o \in CallOutcomes :
       IF args.target_commitish = NoValue
         THEN /\ pc' = "failed" /\ exc' = "AttributeError"
              /\ UNCHANGED <<remote, args, log, todo>>
       ELSE IF o # "ok"
         THEN /\ pc' = "failed" /\ exc' = ExcOf(o)
              /\ UNCHANGED <<remote, args, log, todo>>
       ELSE IF args.tag = NoValue
         THEN /\ pc' = "failed" /\ exc' = "AssertionError"
              /\ UNCHANGED <<remote, args, log, todo>>
       ELSE IF GwGetRelease(remote, args.tag) # NoRelease
         THEN /\ pc' = "failed" /\ exc' = "GithubException"
              /\ UNCHANGED <<remote, args, log, todo>>
       ELSE /\ remote' = GwCreateRelease(remote, args.tag, args.rel_name, args.body,
                                         args.draft, args.pre, args.target_commitish)
            /\ args' = [args EXCEPT !.working_release = remote.nextId]
            /\ log' = Append(log, Ev("create_release", args.tag, remote.nextId))
            /\ todo' = Tail(todo)
            /\ UNCHANGED <<pc, exc>>
  /\ UNCHANGED <<raw, env, faults, fs, flaky, tagq, up, inv, prev>>

(* ReleaseMgr._update_release *)
UpdateRelease ==
  /\ Running("update_release")
  /\ \E o \in CallOutcomes :
       IF o = "ok" /\ args.working_release \in ReleaseIds(remote)
         THEN /\ remote' = GwUpdateRelease(remote, args.working_release, args.rel_name,
                                           args.body, args.draft, args.pre)
              /\ log' = Append(log, Ev("update_release", args.tag, args.working_release))
              /\ todo' = Tail(todo)
              /\ UNCHANGED <<pc, exc>>
         ELSE /\ pc' = "failed" /\ exc' = ExcOf(o)
              /\ UNCHANGED <<remote, log, todo>>
  /\ UNCHANGED <<raw, env, faults, fs, args, flaky, tagq, up, inv, prev>>

(* _find_release_asset(filename) and delete_asset() on what it found: o    *)
(* answers get_assets, d answers delete_asset                              *)
DeleteAssetOf(filename, o, d) ==
  IF args.working_release = NoRelease
    THEN /\ pc' = "failed" /\ exc' = "AttributeError"
         /\ UNCHANGED <<remote, log>>
  ELSE IF o # "ok" \/ args.working_release \notin ReleaseIds(remote)
    THEN /\ pc' = "failed" /\ exc' = ExcOf(o)
         /\ UNCHANGED <<remote, log>>
  ELSE IF AssetIndex(AssetsOf(remote, args.working_release), filename) = 0
    THEN UNCHANGED <<remote, log, pc, exc>>
  ELSE IF d # "ok"
    THEN /\ pc' = "failed" /\ exc' = ExcOf(d)
         /\ UNCHANGED <<remote, log>>
  ELSE /\ remote' = GwDeleteAsset(remote, args.working_release,
                      AssetIndex(AssetsOf(remote, args.working_release), filename))
       /\ log' = Append(log, Ev("delete_asset", filename, args.working_release))
       /\ UNCHANGED <<pc, exc>>

(* ReleaseMgr._delete_file: one iteration of the loop over file_info *)
DeleteFile ==
  /\ Running("delete_file")
  /\ IF up.idx >= Len(args.file_info)
       THEN /\ todo' = Tail(todo)
            /\ up' = IdleUpload
            /\ UNCHANGED <<remote, log, pc, exc>>
       ELSE /\ \E o \in CallOutcomes, d \in CallOutcomes :
                 DeleteAssetOf(args.file_info[up.idx + 1].filename, o, d)
            /\ up' = [up EXCEPT !.idx = @ + 1]
            /\ UNCHANGED todo
  /\ UNCHANGED <<raw, env, faults, fs, args, flaky, tagq, inv, prev>>

(* ReleaseMgr._upload_files: the loop over file_info *)
UploadFiles ==
  /\ Running("upload_files") /\ up.phase \in {"idle", "returned"}
  /\ IF up.idx >= Len(args.file_info)
       THEN todo' = Tail(todo) /\ up' = IdleUpload
       ELSE todo' = todo /\ up' = [IdleUpload EXCEPT !.idx = up.idx + 1, !.phase = "begin"]
  /\ UNCHANGED <<raw, env, faults, fs, remote, args, pc, exc, flaky, tagq, log, inv, prev>>

(* ReleaseMgr._upload_file up to the retry loop: the asset of that name is *)
(* deleted if there is one, and the size of the local file is taken        *)
UploadBegin ==
  /\ Running("upload_files") /\ up.phase = "begin"
  /\ \E o \in CallOutcomes, d \in CallOutcomes :
       DeleteAssetOf(args.file_info[up.idx].filename, o, d)
  /\ up' = [up EXCEPT !.size = GetSize(fs, args.file_info[up.idx].path),
                      !.attempts = 0, !.success = FALSE, !.error = "ConnectionError",
                      !.phase = NextPhase(0, FALSE)]
  /\ UNCHANGED <<raw, env, faults, fs, args, flaky, todo, tagq, inv, prev>>

(* one attempt: the upload call.  Calling upload_asset on a working        *)
(* release that is None is an AttributeError, and no call is made          *)
UploadAttempt ==
  /\ Running("upload_files") /\ up.phase = "attempt"
  /\ IF args.working_release = NoRelease
       THEN /\ up' = [up EXCEPT !.attempts = @ + 1, !.asset = NoAsset,
                                !.returned = NoAsset, !.listed = <<>>,
                                !.seen = "AttributeError",
                                !.error = "AttributeError", !.phase = "refresh"]
            /\ UNCHANGED <<remote, log>>
       ELSE \E out \in UploadOutcomes(remote, args.working_release,
                                     Basename(args.file_info[up.idx].path),
                                     up.size, flaky) :
              /\ remote' = GwStoreAsset(remote, args.working_release,
                                        Basename(args.file_info[up.idx].path), out.stored)
              /\ up' = [up EXCEPT
                          !.attempts = @ + 1, !.calls = @ + 1, !.error = out.err,
                          !.asset = UploadedAsset(Basename(args.file_info[up.idx].path), out),
                          !.returned = UploadedAsset(Basename(args.file_info[up.idx].path), out),
                          !.listed = <<>>,
                          !.seen = IF out.err = NoError THEN @ ELSE out.err,
                          !.phase = "refresh"]
              /\ log' = Append(log, Ev("upload_asset", args.file_info[up.idx].filename,
                                       up.attempts + 1))
  /\ UNCHANGED <<raw, env, faults, fs, args, pc, exc, flaky, todo, tagq, inv, prev>>

(* the finally clause of the attempt: Arguments._get_release() again,      *)
(* whose result is not looked at and whose exceptions are not caught       *)
UploadRefresh ==
  /\ Running("upload_files") /\ up.phase = "refresh"
  /\ \E f \in RefreshFaults :
       IF GetRelease(args, remote, f).err # NoError
         THEN /\ pc' = "failed" /\ exc' = GetRelease(args, remote, f).err
              /\ UNCHANGED <<args, up>>
         ELSE /\ args' = [args EXCEPT !.working_release =
                                        GetRelease(args, remote, f).working_release]
              /\ up' = [up EXCEPT !.phase = "judge"]
              /\ UNCHANGED <<pc, exc>>
  /\ UNCHANGED <<raw, env, faults, fs, remote, flaky, todo, tagq, log, inv, prev>>

(* the asset that _handle_upload_error returns after an error of the       *)
(* family; o answers the get_assets of its lookup                          *)
UploadReconcile(o) ==
  IF args.working_release = NoRelease
    THEN /\ pc' = "failed" /\ exc' = "AttributeError" /\ up' = up
  ELSE IF o # "ok" \/ args.working_release \notin ReleaseIds(remote)
    THEN /\ pc' = "failed" /\ exc' = ExcOf(o) /\ up' = up
  ELSE /\ up' = [up EXCEPT
                   !.listed = AssetsOf(remote, args.working_release),
                   !.asset = Reconciled(FindReleaseAsset(remote, args.working_release,
                                          args.file_info[up.idx].filename), up.size),
                   !.success = Reconciled(FindReleaseAsset(remote, args.working_release,
                                 args.file_info[up.idx].filename), up.size) # NoAsset,
                   !.phase = NextPhase(up.attempts,
                               Reconciled(FindReleaseAsset(remote, args.working_release,
                                 args.file_info[up.idx].filename), up.size) # NoAsset)]
       /\ UNCHANGED <<pc, exc>>

(* the rest of the attempt: the success test, else _handle_upload_error *)
UploadJudge ==
  /\ Running("upload_files") /\ up.phase = "judge"
  /\ \E o \in CallOutcomes :
       IF DirectSuccess(up)
         THEN /\ up' = [up EXCEPT !.success = TRUE, !.phase = NextPhase(up.attempts, TRUE)]
              /\ UNCHANGED <<pc, exc>>
       ELSE IF up.error \in ReconcileFamily
         THEN UploadReconcile(o)
       ELSE /\ up' = [up EXCEPT !.asset = NoAsset,
                                !.phase = NextPhase(up.attempts, FALSE)]
            /\ UNCHANGED <<pc, exc>>
  /\ UNCHANGED <<raw, env, faults, fs, remote, args, flaky, todo, tagq, log, inv, prev>>

(* an upload loop that logs the failure of a file and goes on to the next *)
UploadEnd_Continue ==
  /\ Running("upload_files") /\ up.phase = "end"
  /\ up' = [up EXCEPT !.phase = "returned"]
  /\ log' = IF up.success
              THEN Append(log, Ev("uploaded", args.file_info[up.idx].filename, up.attempts))
              ELSE log
  /\ UNCHANGED <<raw, env, faults, fs, remote, args, pc, exc, flaky, todo, tagq, inv, prev>>

(* after the loop: _upload_file returns, or raises the last error *)
UploadEnd ==
  /\ Running("upload_files") /\ up.phase = "end"
  /\ IF up.success
       THEN /\ up' = [up EXCEPT !.phase = "returned"]
            /\ log' = Append(log, Ev("uploaded", args.file_info[up.idx].filename,
                                     up.attempts))
            /\ UNCHANGED <<pc, exc>>
       ELSE /\ pc' = "failed" /\ exc' = FinalError(up)
            /\ UNCHANGED <<up, log>>
  /\ UNCHANGED <<raw, env, faults, fs, remote, args, flaky, todo, tagq, inv, prev>>

(* the next invocation of the program, on the remote state and the file    *)
(* system the previous one left                                            *)
Restart ==
  /\ pc \in {"done", "failed"} /\ inv < MaxInvocations
  /\ \E r \in NextRaws :
       /\ raw' = r
       /\ args' = NewArgs(CleanKwargs(r))
  /\ prev' = [pc |-> pc, internal_command |-> args.internal_command, slug |-> args.slug,
              tag |-> args.tag, rel_name |-> args.rel_name, body |-> args.body,
              remote |-> remote, first |-> <<>>]
  /\ pc' = "start" /\ exc' = NoError /\ inv' = inv + 1
  /\ todo' = <<>> /\ tagq' = <<>> /\ up' = IdleUpload /\ log' = <<>>
  /\ UNCHANGED <<env, faults, fs, remote, flaky>>

InitWith(inputs, remotes, unreliable) ==
  /\ \E i \in inputs :
       /\ raw = i.raw /\ env = i.env /\ fs = i.fs /\ faults = i.faults
  /\ remote \in remotes
  /\ flaky \in unreliable
  /\ args = NewArgs(CleanKwargs(raw))
  /\ pc = "start"
  /\ exc = NoError
  /\ todo = <<>> /\ tagq = <<>> /\ up = IdleUpload /\ log = <<>>
  /\ inv = 1 /\ prev = [NoPrev EXCEPT !.remote = remote]

(* the resolution alone, over the wide input set *)
InitResolve == InitWith(ResolveInputs, RemoteSet, {FALSE})

NextResolve == Resolve

SpecResolve == InitResolve /\ [][NextResolve]_vars

(* the same keyword map resolved once more, on the file system the first   *)
(* resolution left and an unchanged remote state                           *)
Reresolve ==
  /\ pc \in {"resolved", "failed"} /\ inv < MaxInvocations
  /\ prev' = [NoPrev EXCEPT !.pc = pc, !.internal_command = args.internal_command,
                            !.remote = remote, !.first = args]
  /\ args' = NewArgs(CleanKwargs(raw))
  /\ pc' = "start" /\ exc' = NoError /\ inv' = inv + 1
  /\ UNCHANGED <<raw, env, faults, fs, remote, flaky, todo, tagq, up, log>>

(* the resolution of the files, over file patterns, labels, MIME types,    *)
(* hash modes and manifests, and its repetition                            *)
InitFilesSpec == InitWith(FileInputs, {EmptyRemote, RemoteV1}, {FALSE})

NextFiles == Resolve \/ Reresolve

SpecFiles == InitFilesSpec /\ [][NextFiles]_vars

(* the program: resolution and execution, invocation after invocation *)
Init == InitWith(ExecInputs, UploadRemotes, BOOLEAN)

Next ==
  \/ Resolve
  \/ Execute
  \/ DeleteFile
  \/ DeleteRelease
  \/ DeleteTag
  \/ DeleteTagLoop
  \/ CreateRelease
  \/ UpdateRelease
  \/ UploadFiles
  \/ UploadBegin
  \/ UploadAttempt
  \/ UploadRefresh
  \/ UploadJudge
  \/ UploadEnd
  \/ Finish
  \/ Restart

Spec == Init /\ [][Next]_vars

(* one invocation that creates or updates a release and uploads files,     *)
(* against a gateway whose calls can fail                                  *)
InitUpload == InitWith(UploadInputs, UploadRemotes, {TRUE})

NextUpload ==
  \/ Resolve
  \/ Execute
  \/ CreateRelease
  \/ UpdateRelease
  \/ UploadFiles
  \/ UploadBegin
  \/ UploadAttempt
  \/ UploadRefresh
  \/ UploadJudge
  \/ UploadEnd
  \/ Finish

SpecUpload == InitUpload /\ [][NextUpload]_vars

(* a step of _upload_file *)
UploadStep == UploadBegin \/ UploadAttempt \/ UploadRefresh \/ UploadJudge \/ UploadEnd

(* the interpreter runs _upload_file on: a step of it that can be taken is *)
(* taken (the gateway calls return or raise, none blocks for ever)         *)
FairSpecUpload == SpecUpload /\ WF_vars(UploadStep)


(* ----------------------------------------------------------------------- *)
(* Properties of the resolution                                            *)
(* ----------------------------------------------------------------------- *)
StageRank(st) ==
  CASE st = "new" -> 0 [] st = "basic" -> 1 [] st = "files" -> 2 [] st = "tag" -> 3
    [] st = "command" -> 4 [] st = "data" -> 5 [] st = "done" -> 6

(* the construction has run and got through the given stage *)
Passed(st) == pc # "start" /\ StageRank(args.stage) >= StageRank(st)

(* what the caller supplied, as the resolver reads it *)
Supplied(key) == CleanKwargs(raw)[key]
SuppliedStr(key) == Supplied(key) # NoValue
SuppliedFlag(key) == Supplied(key) # <<>>

ConfigErrors == {"PermissionError", "AttributeError"}

(* the commit of the first tag of the tag list named as the release's tag *)
TagShaOf(rm, i) == IF i = 0 THEN NoValue ELSE rm.tags[i].sha
TagCommit(rm, tag) ==
  TagShaOf(rm, FirstIndex({i \in 1..Len(rm.tags) : rm.tags[i].name = tag}))

C1_CommitDiffersAndRecreate ==
  /\ args.target_commitish # NoValue
  /\ TagCommit(remote, ReleaseById(remote, args.working_release).tag_name)
       \notin {NoValue, args.target_commitish}
  /\ SuppliedFlag("recreate")

(* C1: the internal command is the one the transition table gives for      *)
(* (release found?, user command, file manifest empty?, requested commit   *)
(* differs from the tag's commit and recreate permitted?), and it is one   *)
(* of the six internal commands.                                           *)
C1_TransitionTable ==
  Passed("command") =>
    /\ args.internal_command \in InternalCommands
    /\ args.found /\ args.user_command = COMMAND_UPSERT /\ C1_CommitDiffersAndRecreate
         => args.internal_command = CMD_RECREATE
    /\ args.found /\ args.user_command = COMMAND_UPSERT /\ ~C1_CommitDiffersAndRecreate
         => args.internal_command = CMD_UPDATE
    /\ args.found /\ args.user_command = COMMAND_DELETE /\ args.file_info # <<>>
         => args.internal_command = CMD_DELETE_FILE
    /\ args.found /\ args.user_command = COMMAND_DELETE /\ args.file_info = <<>>
         => args.internal_command = CMD_DELETE_REL
    /\ ~args.found /\ args.user_command = COMMAND_DELETE
         => args.internal_command = CMD_DELETE_TAG
    /\ ~args.found /\ args.user_command = COMMAND_UPSERT
         => args.internal_command = CMD_CREATE

C1_Witness ==
  /\ pc = "resolved" /\ args.internal_command = CMD_RECREATE
  /\ raw.commitish = "c2" /\ raw.recreate = <<TRUE>>

(* C2: a raw input without a token fails with a PermissionError, whatever  *)
(* the other inputs are, before any gateway call is made.                  *)
C2_NoTokenPermissionError ==
  pc # "start" /\ raw.token \in {NoValue, ""} =>
    /\ pc = "failed" /\ exc = "PermissionError"
    /\ args.calls = <<>>

C2_Witness ==
  /\ pc = "failed" /\ exc = "PermissionError" /\ raw.token = NoValue
  /\ raw.command = "bogus" /\ raw.slug = "badslug"

(* C3: on UPDATE and RECREATE each of title, body, prerelease and draft    *)
(* the caller did not supply is that of the current remote release, and a  *)
(* release selected by latest gives the resolved tag its tag name.         *)
C3_Current == IF args.latest THEN GwGetLatestRelease(remote)
              ELSE GwGetRelease(remote, args.tag)

C3_DefaultsFromRemote ==
  pc = "resolved" /\ args.internal_command \in {CMD_UPDATE, CMD_RECREATE} =>
    /\ C3_Current # NoRelease
    /\ raw.rel_name = NoValue => args.rel_name = ReleaseById(remote, C3_Current).title
    /\ raw.body = NoValue => args.body = ReleaseById(remote, C3_Current).body
    /\ raw.pre = <<>> => args.pre = ReleaseById(remote, C3_Current).prerelease
    /\ raw.draft = <<>> => args.draft = ReleaseById(remote, C3_Current).draft
    /\ args.latest => args.tag = ReleaseById(remote, GwGetLatestRelease(remote)).tag_name

C3_Witness ==
  /\ pc = "resolved" /\ args.internal_command = CMD_UPDATE
  /\ raw.rel_name = NoValue /\ raw.body = "B" /\ raw.pre = <<>>
  /\ args.rel_name = "Old" /\ args.pre /\ args.body = "B"

(* C5: on CREATE the fields the caller did not supply are title = tag,     *)
(* body = "Release " + tag, prerelease = false, draft = false.             *)
C5_CreateDefaults ==
  pc = "resolved" /\ args.internal_command = CMD_CREATE =>
    /\ raw.rel_name = NoValue => args.rel_name = args.tag
    /\ raw.body = NoValue => args.body = "Release " \o args.tag
    /\ raw.pre = <<>> => args.pre = FALSE
    /\ raw.draft = <<>> => args.draft = FALSE

C5_Witness ==
  /\ pc = "resolved" /\ args.internal_command = CMD_CREATE
  /\ raw.rel_name = NoValue /\ raw.body = NoValue /\ raw.pre = <<>> /\ raw.draft = <<>>
  /\ args.tag = "v1" /\ args.rel_name = "v1" /\ args.body = "Release v1"

(* the slug the resolver reads: the caller's, else the CI environment's *)
C6_GivenSlug ==
  Get(Supplied("slug"), Get(env.TRAVIS_REPO_SLUG, env.APPVEYOR_REPO_NAME))

(* C6: a slug without separator is treated as absent: owner + "/" + repo   *)
(* is used when both are supplied, else the resolution fails with a        *)
(* configuration error; once the identity is resolved the slug is not      *)
(* empty.                                                                  *)
C6_SlugWithoutSeparator ==
  /\ pc # "start" /\ C6_GivenSlug # NoValue /\ ~HasSeparator(C6_GivenSlug) =>
       IF SuppliedStr("user") /\ SuppliedStr("repo")
         THEN /\ Passed("basic") => args.slug = Supplied("user") \o "/" \o Supplied("repo")
              /\ ~Passed("basic") =>
                   \/ exc = "PermissionError" /\ ~SuppliedStr("token")
                   \/ exc = "AttributeError" /\ Supplied("command") = "bogus"
         ELSE pc = "failed" /\ exc \in ConfigErrors /\ args.calls = <<>>
  /\ Passed("basic") => args.slug \notin {NoValue, ""}

C6_Witness ==
  /\ pc = "resolved" /\ raw.slug = "badslug" /\ raw.user = "o" /\ raw.repo = "r"
  /\ env.APPVEYOR_REPO_NAME = "o/r" /\ args.slug = "o/r"

(* C7: a literal tag string forces latest to false whatever its input      *)
(* value, a release is selected by latest only when no tag was resolved,   *)
(* and with neither a tag (input or CI environment) nor latest the         *)
(* resolution fails before any gateway call.                               *)
C7_TagOrLatest ==
  /\ Passed("tag") /\ SuppliedStr("tag") => ~args.latest
  /\ Passed("tag") =>
       IF \/ SuppliedStr("tag")
          \/ ~SuppliedFlag("latest")
               /\ Get(env.TRAVIS_TAG, env.APPVEYOR_REPO_TAG_NAME) # NoValue
         THEN ~args.latest /\ args.tag # NoValue
         ELSE args.latest /\ SuppliedFlag("latest")
  /\ /\ pc # "start" /\ ~SuppliedStr("tag") /\ ~SuppliedFlag("latest")
     /\ Get(env.TRAVIS_TAG, env.APPVEYOR_REPO_TAG_NAME) = NoValue
     => pc = "failed" /\ args.calls = <<>>

C7_Witness ==
  /\ pc = "resolved" /\ raw.tag = "v2" /\ raw.latest = <<TRUE>>
  /\ ~args.latest /\ args.tag = "v2"

(* ----------------------------------------------------------------------- *)
(* Properties of the execution                                             *)
(* ----------------------------------------------------------------------- *)

(* the invocation before this one was a creation that succeeded, and this  *)
(* one was resolved for its slug and tag, without title and body, its      *)
(* lookups answered by the gateway                                         *)
C4_LaterResolution ==
  /\ inv > 1 /\ prev.pc = "done" /\ prev.internal_command = CMD_CREATE
  /\ pc = "resolved" /\ faults = NoFaults
  /\ Supplied("slug") = prev.slug /\ Supplied("tag") = prev.tag
  /\ ~SuppliedStr("rel_name") /\ ~SuppliedStr("body")

(* C4 as the specification states it: after a creation with title T and    *)
(* body B succeeded, every later resolution for the same slug and tag that *)
(* supplies no title and no body finds the release and resolves to UPDATE  *)
(* with title T and body B.                                                *)
C4_AlwaysUpdate ==
  C4_LaterResolution =>
    /\ args.found /\ args.internal_command = CMD_UPDATE
    /\ args.rel_name = prev.rel_name /\ args.body = prev.body

(* C4: after a creation with title T and body B succeeded, a later         *)
(* resolution for the same slug and tag that supplies no title and no body *)
(* finds the release.  When it is an upsert it has title T and body B, and *)
(* it resolves to UPDATE, unless it both permits recreation and requests a *)
(* commit other than the tag's: then it resolves to RECREATE.  When it is  *)
(* a delete it resolves to the deletion of the release.                    *)
C4_CreateThenResolve ==
  C4_LaterResolution =>
    /\ args.found
    /\ IF Supplied("command") = COMMAND_DELETE
         THEN args.internal_command = CMD_DELETE_REL
         ELSE /\ args.rel_name = prev.rel_name /\ args.body = prev.body
              /\ args.internal_command =
                   IF C1_CommitDiffersAndRecreate THEN CMD_RECREATE ELSE CMD_UPDATE

C4_Witness ==
  /\ C4_LaterResolution /\ args.internal_command = CMD_UPDATE
  /\ prev.rel_name = "T" /\ prev.body = "B" /\ args.rel_name = "T" /\ args.body = "B"

(* the file the upload loop is working on *)
C8_Info == args.file_info[up.idx]

(* an asset of the list with that file name and the size of the local file *)
C8_ListedMatch ==
  \E i \in 1..Len(up.listed) :
    /\ up.listed[i].name = C8_Info.filename
    /\ up.listed[i].size = GetSize(fs, C8_Info.path)

(* C8: the upload of a file counts as successful, and _upload_file returns *)
(* normally, only when the upload call of the attempt returned an asset    *)
(* whose size is the size of the local file, or the reconciliation lookup  *)
(* saw an asset with the file's name and that size.                        *)
C8_SuccessOnlyWhenSizeMatches ==
  up.success \/ up.phase = "returned" =>
    \/ up.returned # NoAsset /\ up.returned.size = GetSize(fs, C8_Info.path)
    \/ C8_ListedMatch

C8_Witness ==
  /\ up.phase = "returned" /\ up.returned = NoAsset /\ C8_ListedMatch /\ up.attempts = 2

(* the invocation ended by an exception out of an attempt of the retry loop *)
C9_FailedInAttempt ==
  /\ pc = "failed" /\ todo # <<>> /\ Head(todo) = "upload_files"
  /\ up.phase \in {"refresh", "judge", "end"}

(* C9 as the specification states it: an error at any step of an attempt   *)
(* (the upload call, the refresh after it, the reconciliation lookup) is a *)
(* failed attempt that is retried while attempts remain, so that the       *)
(* upload of a file is fatal only after all MAX_UPLOAD_ATTEMPTS attempts.  *)
C9_FatalOnlyAfterAllAttempts ==
  C9_FailedInAttempt => up.attempts = MAX_UPLOAD_ATTEMPTS

(* C10: whatever the gateway does, the retry loop of a file makes at most  *)
(* MAX_UPLOAD_ATTEMPTS upload calls, makes no upload call once a success   *)
(* is confirmed, and ends, by returning or by an exception.                *)
C10_BoundedRetry ==
  /\ [](up.calls <= MAX_UPLOAD_ATTEMPTS)
  /\ [][up.success => up'.calls <= up.calls]_vars
  /\ (up.phase = "begin" ~> (up.phase = "returned" \/ pc = "failed"))

C10_Witness ==
  /\ up.phase = "returned" /\ up.calls = MAX_UPLOAD_ATTEMPTS

(* the errors the specification lists as "might actually have succeeded" *)
C11_Family == {"BrokenPipeError", "timeout", "ConnectionAbortedError", "GithubException"}

(* an attempt has been judged and the loop goes on or ends *)
C11_Judged ==
  /\ pc = "executing" /\ todo # <<>> /\ Head(todo) = "upload_files"
  /\ up.attempts > 0 /\ up.phase \in {"attempt", "end"}
  /\ args.working_release \in ReleaseIds(remote)

(* the release has an asset of the file's name and of the local size *)
C11_RemoteMatch ==
  \E i \in 1..Len(AssetsOf(remote, args.working_release)) :
    /\ AssetsOf(remote, args.working_release)[i].name = C8_Info.filename
    /\ AssetsOf(remote, args.working_release)[i].size = GetSize(fs, C8_Info.path)

(* C11 as the specification states it: after an attempt that raised an     *)
(* error of the family (broken pipe, timeout, connection aborted, the      *)
(* gateway's own exception type) the assets are listed again and an asset  *)
(* of the file's name and the expected size makes the attempt a success;   *)
(* after any other error the assets are not listed.                        *)
C11_FamilyReconciles ==
  C11_Judged =>
    /\ up.error \in C11_Family /\ C11_RemoteMatch => up.success
    /\ up.error \notin C11_Family => up.listed = <<>>

(* _upload_file raised after its loop: the attempts are exhausted *)
C12_Exhausted ==
  /\ pc = "failed" /\ todo # <<>> /\ Head(todo) = "upload_files"
  /\ up.phase = "end"

(* C12 as the specification states it: when the attempts of a file are     *)
(* exhausted without success the exception raised is the last error an     *)
(* attempt of that file caught, and ConnectionError only when no attempt   *)
(* caught an error.                                                        *)
C12_LastErrorPropagated ==
  C12_Exhausted =>
    exc = IF up.seen # NoError THEN up.seen ELSE "ConnectionError"

(* the position in the manifest of the file an entry of the log names *)
C13_Pos(e) ==
  FirstIndex({k \in 1..Len(args.file_info) : args.file_info[k].filename = e.arg})

(* the entries of the log that _upload_files made *)
C13_Entries == {i \in 1..Len(log) : log[i].op \in {"delete_asset", "upload_asset", "uploaded"}}

(* the file at position k was confirmed before the entry i of the log *)
C13_ConfirmedBefore(k, i) ==
  \E j \in 1..(i - 1) : log[j].op = "uploaded" /\ C13_Pos(log[j]) = k

(* C13: the files are uploaded one after the other in the order of the     *)
(* manifest: an asset deletion or upload call for a file comes only after  *)
(* every file before it was uploaded with success, so that once the        *)
(* attempts of a file are exhausted the operation has failed and no later  *)
(* file of the manifest has had an upload call or an asset deletion.       *)
C13_SequentialFailFast ==
  pc \in {"executing", "done", "failed"} /\ args.internal_command \in {CMD_CREATE, CMD_UPDATE} =>
    /\ \A i \in C13_Entries :
         /\ C13_Pos(log[i]) \in 1..up.idx \/ (up.idx = 0 /\ todo = <<>>)
         /\ \A k \in 1..(C13_Pos(log[i]) - 1) : C13_ConfirmedBefore(k, i)
    /\ \A i \in C13_Entries, j \in C13_Entries :
         i < j => C13_Pos(log[i]) <= C13_Pos(log[j])
    /\ pc = "done" =>
         \A k \in 1..Len(args.file_info) : C13_ConfirmedBefore(k, Len(log) + 1)

C13_Witness ==
  /\ C12_Exhausted /\ up.idx = 1 /\ Len(args.file_info) = 2 /\ up.calls = MAX_UPLOAD_ATTEMPTS
  /\ args.working_release \in ReleaseIds(remote)
  /\ AssetIndex(AssetsOf(remote, args.working_release), args.file_info[2].filename) # 0

(* the file names of the manifest *)
C14_Names == {args.file_info[k].filename : k \in 1..Len(args.file_info)}

(* the assets of a list that the manifest does not name, in order *)
C14_Others(assets) ==
  Pick(assets, {i \in 1..Len(assets) : assets[i].name \notin C14_Names})

(* the release the deletion works on, as it was when the invocation began *)
C14_Before == ReleaseById(prev.remote, args.working_release)

(* C14: DELETE_FILE deletes only assets of the release that the manifest   *)
(* names, and when it has ended normally all of them and nothing else: the *)
(* tags, the other releases, the release's own fields and the assets the   *)
(* manifest does not name are as before; a name of the manifest without    *)
(* an asset is no error.                                                   *)
C14_DeleteFileFrame ==
  pc \in {"executing", "done", "failed"} /\ args.internal_command = CMD_DELETE_FILE =>
    /\ remote.tags = prev.remote.tags /\ remote.repo = prev.remote.repo
    /\ Len(remote.releases) = Len(prev.remote.releases)
    /\ \A i \in 1..Len(remote.releases) :
         IF remote.releases[i].id = args.working_release
           THEN /\ [remote.releases[i] EXCEPT !.assets = <<>>] = [C14_Before EXCEPT !.assets = <<>>]
                /\ C14_Others(remote.releases[i].assets) = C14_Others(C14_Before.assets)
                /\ \A j \in 1..Len(remote.releases[i].assets) :
                     \E k \in 1..Len(C14_Before.assets) :
                       C14_Before.assets[k] = remote.releases[i].assets[j]
                /\ pc = "done" => remote.releases[i].assets = C14_Others(C14_Before.assets)
           ELSE remote.releases[i] = prev.remote.releases[i]
    /\ ~flaky => pc # "failed"

(* a deletion of b.zip that left a.zip, and a deletion of a.zip and b.zip  *)
(* on a release that has no b.zip                                          *)
C14_Witness ==
  /\ pc = "done" /\ args.internal_command = CMD_DELETE_FILE
  /\ Len(C14_Before.assets) = 2 /\ Len(AssetsOf(remote, args.working_release)) = 1

C14_AbsentIsNoError ==
  /\ pc = "done" /\ args.internal_command = CMD_DELETE_FILE
  /\ Len(args.file_info) = 2 /\ Len(C14_Before.assets) = 1
  /\ AssetsOf(remote, args.working_release) = <<>>

(* the loop of _delete_tag has run to its end, and no later step has run *)
C15_After ==
  /\ pc = "executing"
  /\ args.internal_command \in {CMD_DELETE_TAG, CMD_DELETE_REL, CMD_RECREATE}
  /\ args.internal_command = CMD_DELETE_TAG \/ args.include_tag
  /\ IF args.internal_command = CMD_RECREATE
       THEN todo # <<>> /\ Head(todo) = "create_release"
       ELSE todo = <<>>

(* the tags of the tag list that match the resolved tag as a pattern *)
C15_Matching ==
  {prev.remote.tags[i].name : i \in {j \in 1..Len(prev.remote.tags) :
                                       FnMatch(prev.remote.tags[j].name, args.tag)}}

(* the release the tag had when the loop came to it: the one it had when   *)
(* the invocation began, unless _delete_release deleted that one before    *)
C15_ReleaseOf(t) ==
  IF /\ args.internal_command \in {CMD_DELETE_REL, CMD_RECREATE}
     /\ GwGetRelease(prev.remote, t) = args.working_release
    THEN NoRelease ELSE GwGetRelease(prev.remote, t)

C15_Index(op, t) == FirstIndex({i \in 1..Len(log) : log[i].op = op /\ log[i].arg = t})

(* C15: in the tag deletion, for every tag of the tag list that matches    *)
(* the resolved tag as a pattern: when the tag has a release and force was *)
(* not requested, the release and the tag are both kept; when force was    *)
(* requested, the release is deleted and then the tag; when the tag has no *)
(* release, the tag is deleted.  (A tag is deleted by git push --delete,   *)
(* whose failure leaves the tag.)                                          *)
C15_TagDeletionRule ==
  C15_After =>
    \A t \in C15_Matching :
      IF C15_ReleaseOf(t) # NoRelease /\ ~args.force
        THEN /\ GwGetRelease(remote, t) = C15_ReleaseOf(t)
             /\ t \in {remote.tags[i].name : i \in 1..Len(remote.tags)}
             /\ C15_Index("delete_tag", t) = 0
        ELSE /\ GwGetRelease(remote, t) = NoRelease
             /\ ~flaky => t \notin {remote.tags[i].name : i \in 1..Len(remote.tags)}
             /\ C15_Index("delete_tag", t) # 0 =>
                  t \notin {remote.tags[i].name : i \in 1..Len(remote.tags)}
             /\ C15_ReleaseOf(t) # NoRelease /\ C15_Index("delete_tag", t) # 0 =>
                  \E i \in 1..(C15_Index("delete_tag", t) - 1) :
                    log[i] = Ev("delete_release", t, C15_ReleaseOf(t))

(* a forced deletion by pattern that removed two releases and their tags *)
C15_Witness ==
  /\ C15_After /\ args.force /\ args.tag = "v*"
  /\ Len(prev.remote.releases) = 2 /\ remote.releases = <<>> /\ remote.tags = <<>>

(* an unforced deletion by pattern that kept a release and its tag *)
C15_KeptWitness ==
  /\ C15_After /\ ~args.force /\ args.tag = "v*"
  /\ Len(prev.remote.releases) = 2 /\ remote = prev.remote

(* the invocation failed inside the tag deletion step *)
C16_FailedInTagDeletion ==
  /\ pc = "failed" /\ todo # <<>>
  /\ Head(todo) \in {"delete_tag", "delete_tag_loop"}

(* C16: tag deletion is never fatal: execute() of DELETE_RELEASE,          *)
(* DELETE_TAG or RECREATE never fails because of a failure inside the tag  *)
(* deletion step, and the steps after it still run.                        *)
C16_TagDeletionNeverFatal ==
  args.internal_command \in {CMD_DELETE_REL, CMD_DELETE_TAG, CMD_RECREATE} =>
    ~C16_FailedInTagDeletion

(* what the code does swallow: a git push --delete that fails leaves the   *)
(* tag and the invocation goes on                                          *)
C16_GitFailureSwallowed ==
  C16_FailedInTagDeletion => exc \in {"GithubException", "TypeError"}

(* a tag was removed in this invocation *)
C17_TagDeleted == \E i \in 1..Len(log) : log[i].op = "delete_tag"

(* C17: tags are deleted only when the resolved command is DELETE_TAG, or  *)
(* the caller asked to include the tag, or RECREATE was chosen; a          *)
(* DELETE_RELEASE whose caller did not ask to include the tag deletes no   *)
(* tag, whatever the recreate flag is.                                     *)
C17_TagsDeletedOnlyWhenAsked ==
  C17_TagDeleted =>
    \/ args.internal_command \in {CMD_DELETE_TAG, CMD_RECREATE}
    \/ raw.include_tag = <<TRUE>>

(* what the code guards tag deletion with: the resolved include_tag, which *)
(* the recreate flag sets                                                  *)
C17_GuardedByResolvedFlag ==
  C17_TagDeleted =>
    \/ args.internal_command = CMD_DELETE_TAG
    \/ raw.include_tag = <<TRUE>>
    \/ raw.recreate = <<TRUE>>

(* the place of a remote operation in the order of a recreation *)
C18_Rank(op) ==
  CASE op = "delete_release" -> 1
    [] op = "delete_tag"     -> 2
    [] op = "create_release" -> 3
    [] OTHER                 -> 4

(* the release that the recreation replaces *)
C18_Old == GwGetRelease(prev.remote, args.tag)

(* the deletions of a recreation are behind it *)
C18_PastDeletion ==
  /\ pc \in {"executing", "done", "failed"}
  /\ \A k \in 1..Len(todo) : todo[k] \notin {"delete_release", "delete_tag", "delete_tag_loop"}

(* C18: RECREATE runs delete release, then delete tag, then create         *)
(* release, then the uploads of all assets; and the tag of the release is  *)
(* deleted whatever force and include_tag the caller gave.                 *)
C18_RecreateOrder ==
  args.internal_command = CMD_RECREATE /\ pc \in {"executing", "done", "failed"} =>
    /\ \A i \in 1..Len(log) : \A j \in i..Len(log) :
         C18_Rank(log[i].op) <= C18_Rank(log[j].op)
    /\ log # <<>> => log[1] = Ev("delete_release", args.tag, C18_Old)
    /\ C18_PastDeletion =>
         /\ Len(log) >= 1 /\ C18_Old \notin ReleaseIds(remote)
         /\ ~flaky => Len(log) >= 2 /\ log[2] = Ev("delete_tag", args.tag, 0)
         /\ (Len(log) >= 2 /\ log[2].op = "delete_tag") =>
              \/ args.tag \notin {remote.tags[i].name : i \in 1..Len(remote.tags)}
              \/ \E i \in 3..Len(log) : log[i].op = "create_release"
    /\ pc = "done" =>
         /\ \E i \in 2..Len(log) :
              /\ log[i].op = "create_release" /\ log[i].arg = args.tag
              /\ log[i].n \in ReleaseIds(remote) \ {C18_Old}
         /\ \A k \in 1..Len(args.file_info) : \E i \in 3..Len(log) :
              log[i].op = "uploaded" /\ log[i].arg = args.file_info[k].filename

(* a finished recreation whose caller gave force and include_tag as false: *)
(* release deleted, tag deleted, release created, asset uploaded           *)
C18_Witness ==
  /\ args.internal_command = CMD_RECREATE /\ pc = "done"
  /\ raw.force = <<FALSE>> /\ raw.include_tag = <<FALSE>>
  /\ Len(log) >= 4 /\ log[2] = Ev("delete_tag", args.tag, 0)
  /\ log[3].op = "create_release" /\ log[Len(log)].op = "uploaded"

(* the tag names of a remote state *)
C19_TagNames(rm) == {rm.tags[i].name : i \in 1..Len(rm.tags)}

(* C19: a delete on a tag whose release exists, with an empty manifest     *)
(* (DELETE_RELEASE), deletes the release first and then runs the tag       *)
(* deletion; with include_tag set and the tag removals succeeding,         *)
(* neither the release nor the tag exists afterwards.                      *)
C19_DeleteReleaseThenTag ==
  args.internal_command = CMD_DELETE_REL /\ pc \in {"executing", "done", "failed"} =>
    /\ args.file_info = <<>>
    /\ args.working_release \in ReleaseIds(prev.remote)
    /\ log # <<>> =>
         log[1] = Ev("delete_release", ReleaseById(prev.remote, args.working_release).tag_name,
                     args.working_release)
    /\ \A i \in 1..Len(log) : log[i].op = "delete_tag" => i > 1
    /\ todo = <<>> =>
         /\ log # <<>> /\ args.working_release \notin ReleaseIds(remote)
         /\ raw.include_tag = <<TRUE>> =>
              /\ GwGetRelease(remote, args.tag) = NoRelease
              /\ args.tag \in C19_TagNames(remote) =>
                   /\ flaky
                   /\ \A i \in 1..Len(log) : log[i] # Ev("delete_tag", args.tag, 0)

(* a finished deletion of release v1 with include_tag: the release was     *)
(* deleted, then its tag, and neither is left                              *)
C19_Witness ==
  /\ args.internal_command = CMD_DELETE_REL /\ pc = "done" /\ raw.include_tag = <<TRUE>>
  /\ "v1" \in C19_TagNames(prev.remote)
  /\ log = <<Ev("delete_release", "v1", args.working_release), Ev("delete_tag", "v1", 0)>>
  /\ "v1" \notin C19_TagNames(remote) /\ GwGetRelease(remote, "v1") = NoRelease

(* the invocation ended with a configuration error: one that the resolver *)
(* raised, or one that _create_release raised for its inputs               *)
C20_ConfigError ==
  /\ pc = "failed"
  /\ \/ /\ todo = <<>>
        /\ exc \in {"AttributeError", "PermissionError", "TypeError", "ReferenceError"}
     \/ /\ todo # <<>> /\ Head(todo) = "create_release"
        /\ exc \in {"AttributeError", "TypeError", "AssertionError"}

C20_NoTagWitness ==
  /\ C20_ConfigError /\ args.internal_command = CMD_CREATE
  /\ todo # <<>> /\ args.tag = NoValue /\ exc = "AssertionError"

(* a creation without a tag, refused by the resolver *)
C20_ResolverWitness ==
  /\ C20_ConfigError /\ todo = <<>> /\ exc = "TypeError" /\ args.tag = NoValue

(* the resolved command is CREATE and the target was selected by latest: *)
(* no tag string was resolved                                             *)
C21_CreateByLatest ==
  /\ pc \in {"resolved", "failed"}
  /\ args.internal_command = CMD_CREATE
  /\ args.latest /\ args.tag = NoValue

(* C21: when the resolved command is CREATE and the target was selected   *)
(* by latest (no literal tag), resolution fails and no Operation is        *)
(* returned, whichever of title and body the caller supplied.              *)
C21_CreateNeedsLiteralTag ==
  C21_CreateByLatest => pc = "failed" /\ exc # NoError

(* what the code does: the failure is the concatenation of the default     *)
(* body with a tag that is None, so it happens exactly when no body was    *)
(* supplied                                                                *)
C21_FailsOnlyWithoutBody ==
  C21_CreateByLatest => (pc = "failed" <=> args.kwargs.body = NoValue)

(* a resolution has ended *)
Resolved == pc \in {"resolved", "failed"}

(* explicit file patterns with a number of labels, or of MIME types, that  *)
(* is neither 0, 1 nor the number of patterns                              *)
C22_Mismatch ==
  /\ Len(raw.file) > 0
  /\ \/ Len(raw.label) \notin {0, 1, Len(raw.file)}
     \/ Len(raw.mime) \notin {0, 1, Len(raw.file)}

(* C22: with explicit file patterns and a number of labels that is neither *)
(* 0, 1 nor the number of patterns (the same for MIME types), resolution   *)
(* fails with a configuration error, before any gateway call.              *)
C22_CountRule ==
  Resolved /\ C22_Mismatch =>
    pc = "failed" /\ exc = "AttributeError" /\ args.calls = <<>>

(* what the code does: the message of the error is built as str + int, so  *)
(* a TypeError leaves _init_files before the configuration error is raised *)
C22_FailsWithTypeError ==
  Resolved /\ C22_Mismatch =>
    pc = "failed" /\ exc = "TypeError" /\ args.calls = <<>> /\ args.file_info = <<>>

(* an upload of explicit file patterns alone (no manifest, no hashes) whose *)
(* counts of labels and MIME types are admitted                            *)
C23_Case ==
  /\ Resolved /\ inv = 1 /\ raw.command = NoValue
  /\ Len(raw.file) > 0 /\ ~C22_Mismatch
  /\ raw.file_sha = NoValue /\ raw.files_file = NoValue /\ DOMAIN fs.json = {}

(* the label of a file that the pattern at position i expanded to *)
C23_LabelAt(i, path) ==
  IF Len(raw.label) = 0 THEN Basename(path)
  ELSE IF Len(raw.label) = 1 THEN raw.label[1]
  ELSE raw.label[i]

(* the labels of the descriptors, pattern after pattern *)
C23_Expected ==
  Concat([i \in 1..Len(raw.file) |->
            [j \in 1..Len(Glob(fs, raw.file[i])) |->
               C23_LabelAt(i, Glob(fs, raw.file[i])[j])]])

(* the files the patterns expand to *)
C23_Expanded == Concat([i \in 1..Len(raw.file) |-> Glob(fs, raw.file[i])])

(* C23: in an upload of N explicit patterns, for every glob expansion:     *)
(* without a label each descriptor is labelled with its fileName; with one *)
(* label each descriptor gets it; with N labels each descriptor gets the   *)
(* label at the position of its pattern, and resolution does not fail.     *)
C23_LabelsByPattern ==
  C23_Case /\ C23_Expanded # <<>> =>
    /\ pc = "resolved"
    /\ [k \in 1..Len(args.file_info) |-> args.file_info[k].label] = C23_Expected

(* what the code does: with N labels the label is read at the position of  *)
(* the expanded file, and an expansion longer than the labels is an        *)
(* IndexError                                                              *)
C23_LabelsByExpansion ==
  C23_Case /\ C23_Expanded # <<>> /\ Len(raw.label) > 1 /\ Len(raw.mime) <= 1 =>
    IF Len(C23_Expanded) > Len(raw.label)
      THEN pc = "failed" /\ exc = "IndexError"
      ELSE /\ pc = "resolved"
           /\ [k \in 1..Len(args.file_info) |-> args.file_info[k].label]
                = [k \in 1..Len(C23_Expanded) |-> raw.label[k]]

(* with no label or one label the rule holds *)
C23_ZeroOrOneLabel ==
  C23_Case /\ C23_Expanded # <<>> /\ Len(raw.label) <= 1 /\ Len(raw.mime) <= 1 =>
    /\ pc = "resolved"
    /\ [k \in 1..Len(args.file_info) |-> args.file_info[k].label] = C23_Expected

(* an upload resolved with hash mode 'file' *)
C24_Case ==
  /\ pc = "resolved" /\ inv = 1 /\ args.user_command = COMMAND_UPSERT
  /\ args.file_sha = FILE_SHA_SEP_FILE /\ args.file_info # <<>>

C24_Name == HashFileName(Lower(fs.platform))

(* the hash manifest as it is read back from the working directory *)
C24_Written == JsonLoads(fs.files[C24_Name])

(* the working directory before the resolution wrote the hash manifest *)
C24_FsBefore ==
  [fs EXCEPT !.files = [p \in DOMAIN fs.files \ {C24_Name} |-> fs.files[p]]]

(* the map that _init_files built in memory *)
C24_Memory ==
  Preprocess(args, C24_FsBefore,
             ManifestFiles(args, C24_FsBefore) \o CliFiles(args, C24_FsBefore).infos,
             <<>>, <<>>).sha_dict

(* the descriptors of the upload list other than the hash manifest *)
C24_Uploads == {k \in 1..Len(args.file_info) : args.file_info[k].filename # C24_Name}

(* the hash manifest is written, reads back equal to the map in memory,    *)
(* and is queued as an asset of its own (first on Windows, last elsewhere) *)
C24_RoundTripAndQueued ==
  C24_Case =>
    /\ IsFile(fs, C24_Name)
    /\ C24_Written = C24_Memory
    /\ JsonDumps(C24_Written) = fs.files[C24_Name]
    /\ args.file_info[IF Lower(fs.platform) = "windows" THEN 1 ELSE Len(args.file_info)]
         = HashFileInfo(fs, C24_Name)

(* C24: with hash mode 'file' the hash manifest written by the resolution  *)
(* maps each uploaded fileName to the SHA-256 digest of its local file:    *)
(* every key is the fileName of a descriptor of the upload list, every     *)
(* value is a digest and never null; it reads back equal to the map in     *)
(* memory, and it is queued for upload as an asset of its own.             *)
C24_HashManifest ==
  C24_Case =>
    /\ C24_RoundTripAndQueued
    /\ \A k \in C24_Uploads :
         /\ args.file_info[k].filename \in DictKeys(C24_Written)
         /\ DictGet(C24_Written, args.file_info[k].filename)
              = Sha256(fs.files[args.file_info[k].path])
    /\ \A i \in 1..Len(C24_Written) :
         /\ C24_Written[i][2] # NoValue
         /\ \E k \in C24_Uploads : args.file_info[k].filename = C24_Written[i][1]

(* a hash manifest with a null: the entry of a file that is not there *)
C24_NullEntry ==
  C24_Case /\ \E i \in 1..Len(C24_Written) : C24_Written[i][2] = NoValue

(* a hash manifest that gives a.zip the digest of dist/a.zip *)
C24_SharedName ==
  /\ C24_Case /\ IsFile(fs, "dist/a.zip")
  /\ \E k \in C24_Uploads :
       /\ args.file_info[k].path = "a.zip"
       /\ DictGet(C24_Written, "a.zip") = Sha256(fs.files["dist/a.zip"])

(* the release descriptor of an Operation *)
C25_Release(a) ==
  [tag |-> a.tag, rel_name |-> a.rel_name, body |-> a.body, pre |-> a.pre,
   draft |-> a.draft, target_commitish |-> a.target_commitish, slug |-> a.slug,
   working_release |-> a.working_release]

(* the same keyword map was resolved twice, the remote state unchanged *)
C25_Twice == Resolved /\ inv = 2 /\ prev.pc \in {"resolved", "failed"} /\ remote = prev.remote

(* C25: resolving the same RawInput twice against an unchanged remote      *)
(* state yields equivalent Operations (same internal command, same release *)
(* descriptor, same list of asset descriptors), also when the first        *)
(* resolution wrote a hash manifest into the working directory.            *)
C25_Idempotent ==
  C25_Twice =>
    /\ pc = prev.pc
    /\ exc = prev.first.err
    /\ pc = "resolved" =>
         /\ args.internal_command = prev.first.internal_command
         /\ C25_Release(args) = C25_Release(prev.first)
         /\ args.file_info = prev.first.file_info

(* what the code does: the second resolution differs only when a pattern   *)
(* matches the hash manifest that the first one wrote                      *)
C25_IdempotentUnlessGlobbed ==
  C25_Twice /\ ~(args.file_sha = FILE_SHA_SEP_FILE /\ \E i \in 1..Len(raw.file) :
                    GlobMatches(C24_Name, raw.file[i])) =>
    /\ pc = prev.pc /\ exc = prev.first.err
    /\ args.internal_command = prev.first.internal_command
    /\ C25_Release(args) = C25_Release(prev.first)
    /\ args.file_info = prev.first.file_info

(* the hash manifest of the first resolution is among the files of the     *)
(* second                                                                  *)
C25_ManifestGlobbed ==
  /\ C25_Twice /\ pc = "resolved" /\ prev.pc = "resolved"
  /\ Len(args.file_info) = Len(prev.first.file_info) + 1
  /\ args.file_info[Len(args.file_info) - 1].filename = C24_Name

(* the paths of a list of descriptors *)
PathsOf(infos) == [k \in 1..Len(infos) |-> infos[k].path]

(* the merged manifest of a resolution: files_file, GravityBee files file, *)
(* explicit files                                                          *)
C26_Merged ==
  ManifestFiles(args, C24_FsBefore) \o CliFiles(args, C24_FsBefore).infos

(* its entries whose local path exists, in their order *)
C26_Existing ==
  Pick(C26_Merged, {k \in 1..Len(C26_Merged) : IsFile(C24_FsBefore, C26_Merged[k].path)})

(* the descriptors of the Operation but the hash manifest *)
C26_Kept == Pick(args.file_info, C24_Uploads)

(* a resolution that read its files with admitted counts *)
C26_Case ==
  /\ Resolved /\ inv = 1 /\ ~C22_Mismatch
  /\ CliFiles(args, C24_FsBefore).err = NoError

(* C26: in upload mode an entry of the manifest, whatever its provenance   *)
(* (files_file, GravityBee files file, explicit files), whose local path   *)
(* does not exist is dropped without error and the others are kept in      *)
(* their order; in delete mode the entries are kept without a check.       *)
C26_MissingDropped ==
  C26_Case =>
    IF args.user_command = COMMAND_UPSERT
      THEN C26_Existing # <<>> =>
             pc = "resolved" /\ PathsOf(C26_Kept) = PathsOf(C26_Existing)
      ELSE pc = "resolved" /\ args.file_info = C26_Merged

(* what the code does in upload mode: a missing entry is dropped when      *)
(* explicit files were given and the hash is not added to the label; else  *)
(* the log line of the skip, or the label, fails                           *)
C26_DroppedOrFails ==
  C26_Case /\ args.user_command = COMMAND_UPSERT /\ C26_Existing # C26_Merged =>
    IF args.file_sha = FILE_SHA_LABEL
      THEN pc = "failed" /\ exc \in {"TypeError", "UnboundLocalError"}
    ELSE IF Len(raw.file) = 0
      THEN pc = "failed" /\ exc = "UnboundLocalError"
    ELSE C26_Existing # <<>> =>
           pc = "resolved" /\ PathsOf(C26_Kept) = PathsOf(C26_Existing)

(* deletions keep their entries unchecked *)
C26_DeleteKeeps ==
  C26_Case /\ args.user_command = COMMAND_DELETE =>
    pc = "resolved" /\ args.file_info = C26_Merged

(* explicit file patterns were given and no descriptor survives the glob   *)
(* expansion and the existence filter                                      *)
C27_NoneSurvives ==
  /\ C26_Case /\ Len(raw.file) > 0
  /\ args.user_command = COMMAND_UPSERT /\ C26_Existing = <<>>

(* C27: when explicit file patterns were given and zero descriptors        *)
(* survive glob expansion and existence filtering, resolution fails with a *)
(* configuration error, in every hash mode.                                *)
C27_NoFilesIsError ==
  C27_NoneSurvives => pc = "failed" /\ exc = "AttributeError"

(* what the code does: the test is on the final list, which in hash mode   *)
(* 'file' holds the hash manifest once any entry was merged                *)
C27_ErrorUnlessManifestQueued ==
  C27_NoneSurvives =>
    IF C26_Merged = <<>> \/ args.file_sha = FILE_SHA_NONE
      THEN pc = "failed" /\ exc = "AttributeError"
    ELSE IF args.file_sha = FILE_SHA_LABEL
      THEN pc = "failed" /\ exc = "TypeError"
    ELSE pc = "resolved" /\ PathsOf(args.file_info) = <<C24_Name>>

(* an Operation whose only asset is a hash manifest of nulls *)
C27_OnlyManifest ==
  /\ C27_NoneSurvives /\ pc = "resolved"
  /\ PathsOf(args.file_info) = <<C24_Name>>
  /\ fs.files[C24_Name] = "{\"gone.zip\": null}"

(* how many of the gateway calls of the resolution bear one of the names *)
C28_Count(names) == Cardinality({i \in 1..Len(args.calls) : args.calls[i] \in names})

C28_ReleaseLookups == C28_Count({"get_release", "get_latest_release"})

C28_TagLookups == C28_Count({"get_tags"})

(* C28: a resolution performs exactly one release lookup and, for the user *)
(* command upsert with a found release, exactly one additional lookup of   *)
(* the tag list; for every other combination it performs no tag lookup.    *)
(* (A resolution that fails before the release lookup performs none.)      *)
C28_Lookups ==
  Resolved =>
    /\ pc = "resolved" => C28_ReleaseLookups = 1
    /\ C28_ReleaseLookups <= 1
    /\ C28_TagLookups =
         (IF args.found /\ args.user_command = COMMAND_UPSERT THEN 1 ELSE 0)
    /\ C28_TagLookups = 1 =>
         args.calls[Len(args.calls)] = "get_tags" /\ C28_ReleaseLookups = 1

(* an upsert that found its release: repository, release, tag list *)
C28_Witness ==
  /\ pc = "resolved" /\ args.found /\ args.user_command = COMMAND_UPSERT
  /\ args.calls = <<"get_repo", "get_release", "get_tags">>

(* a deletion that found its release: no tag lookup *)
C28_DeleteWitness ==
  /\ pc = "resolved" /\ args.found /\ args.user_command = COMMAND_DELETE
  /\ args.calls = <<"get_repo", "get_latest_release">>

(* the entries of the log that are a second or later attempt of a file *)
C29_Retries == {j \in 1..Len(log) : log[j].op = "upload_asset" /\ log[j].n > 1}

(* C29: between two consecutive upload attempts of the same file the       *)
(* program pauses, the pause growing with the attempt number (30 times the *)
(* attempt number); no pause precedes attempt 1.                           *)
C29_PauseBetweenAttempts ==
  /\ \A j \in C29_Retries :
       j > 1 /\ log[j - 1] = Ev("sleep", log[j].arg, 30 * (log[j].n - 1))
  /\ \A j \in 2..Len(log) :
       log[j].op = "upload_asset" /\ log[j].n = 1 => log[j - 1].op # "sleep"

(* what the code does: the next attempt follows the failed one at once,    *)
(* _upload_file calls nothing that waits                                   *)
C29_AttemptsBackToBack ==
  \A j \in C29_Retries :
    /\ j > 1 /\ log[j - 1].op = "upload_asset"
    /\ log[j - 1].arg = log[j].arg /\ log[j - 1].n < log[j].n

(* a file that was attempted three times *)
C29_ThreeAttempts ==
  \E j \in C29_Retries : log[j].n = MAX_UPLOAD_ATTEMPTS

(* a recreation whose release creation failed, after its deletions *)
C30_CreateFailed ==
  /\ args.internal_command = CMD_RECREATE /\ pc = "failed"
  /\ todo # <<>> /\ Head(todo) = "create_release"

(* C30: RECREATE is not transactional: when the creation of the release    *)
(* fails after the old release (and tag) were deleted, nothing is          *)
(* compensated, execute fails, and the remote state has no release for the *)
(* tag.                                                                    *)
C30_NotTransactional ==
  C30_CreateFailed =>
    /\ exc # NoError
    /\ C18_Old # NoRelease /\ C18_Old \notin ReleaseIds(remote)
    /\ GwGetRelease(remote, args.tag) = NoRelease
    /\ remote.releases = GwDeleteRelease(prev.remote, C18_Old).releases
    /\ remote.nextId = prev.remote.nextId
    /\ log # <<>> /\ log[1] = Ev("delete_release", args.tag, C18_Old)
    /\ \A i \in 2..Len(log) : log[i] = Ev("delete_tag", args.tag, 0)
    /\ remote.tags \in {prev.remote.tags, GitPushDelete(prev.remote, args.tag, TRUE).tags}
    /\ Len(log) = 2 <=> remote.tags # prev.remote.tags

(* the creation failed after the release and the tag were deleted *)
C30_Witness ==
  /\ C30_CreateFailed /\ exc = "GithubException"
  /\ log = <<Ev("delete_release", "v1", 1), Ev("delete_tag", "v1", 0)>>
  /\ remote.releases = <<>> /\ remote.tags = <<>>
  /\ Len(prev.remote.releases) = 1

(* ----------------------------------------------------------------------- *)
(* C31: the construction of the Operation only reads the gateway: when it  *)
(* has returned or raised, the remote releases, tags and assets are those  *)
(* the invocation started from, and every gateway call it made is a lookup *)
(* ----------------------------------------------------------------------- *)
C31_ReadCalls == {"get_repo", "get_release", "get_latest_release", "get_tags"}

(* the construction is over and the execution has not begun *)
C31_AfterResolution == pc = "resolved" \/ (pc = "failed" /\ args.err # NoError)

C31_ResolutionOnlyReads ==
  C31_AfterResolution =>
    /\ remote = prev.remote
    /\ \A i \in 1..Len(args.calls) : args.calls[i] \in C31_ReadCalls

(* a later invocation resolved on a remote state that has releases, having *)
(* looked up the repository, the release and the tags                      *)
C31_Witness ==
  /\ pc = "resolved" /\ inv = 2
  /\ remote.releases # <<>>
  /\ Len(args.calls) = 3

(* a resolution that failed after its first gateway calls *)
C31_FailedWitness ==
  /\ pc = "failed" /\ args.err # NoError
  /\ Len(args.calls) >= 2
  /\ remote.releases # <<>>

(* ----------------------------------------------------------------------- *)
(* C32: every upload attempt, asset deletion and reconciliation lookup of  *)
(* an Operation addresses the release the Operation created or updated,    *)
(* also after the refreshes of the release handle, and also when the       *)
(* release was selected by latest and the update made it a draft or a      *)
(* prerelease                                                              *)
(* ----------------------------------------------------------------------- *)
C32_Done == {i \in 1..Len(log) : log[i].op \in {"create_release", "update_release"}}

(* the release this Operation created or updated *)
C32_Target == log[FirstIndex(C32_Done)].n

(* the next step of _upload_file calls the working release: the deletion   *)
(* of the old asset, an upload attempt, or the lookup after an error of    *)
(* the family                                                              *)
C32_Addressing ==
  /\ Running("upload_files")
  /\ C32_Done # {}
  /\ args.working_release # NoRelease
  /\ \/ up.phase \in {"begin", "attempt"}
     \/ up.phase = "judge" /\ ~DirectSuccess(up) /\ up.error \in ReconcileFamily

C32_SameRelease == C32_Addressing => args.working_release = C32_Target

(* the update hides the release from get_latest_release *)
C32_Hidden == args.latest /\ (args.draft \/ args.pre)

(* what the code does: the release addressed is the one created or updated *)
(* unless it was selected by latest and the update hid it                  *)
C32_SameUnlessHidden ==
  C32_Addressing /\ ~C32_Hidden => args.working_release = C32_Target

(* with a gateway that never fails: the second file goes to the release    *)
(* that is the latest one after the update                                 *)
C32_OtherRelease ==
  /\ C32_Addressing /\ ~flaky
  /\ args.working_release # C32_Target
  /\ up.idx = 2 /\ up.phase = "begin"

(* with a gateway that never fails and no other release: the handle is     *)
(* None after the first file and the invocation fails                      *)
C32_HandleLost ==
  /\ pc = "failed" /\ ~flaky /\ exc = "AttributeError"
  /\ C32_Done # {} /\ C32_Hidden
  /\ \E i \in 1..Len(log) : log[i].op = "uploaded"

(* ----------------------------------------------------------------------- *)
(* C33: at the moment of every upload attempt for a file, the first and    *)
(* the later ones, the release holds no asset of that file name            *)
(* ----------------------------------------------------------------------- *)
(* an upload attempt for the file is the next step *)
C33_AtAttempt ==
  /\ Running("upload_files") /\ up.phase = "attempt"
  /\ args.working_release \in ReleaseIds(remote)

(* the release holds an asset named as the file *)
C33_Held ==
  AssetIndex(AssetsOf(remote, args.working_release),
             args.file_info[up.idx].filename) # 0

C33_NoAssetAtAttempt == C33_AtAttempt => ~C33_Held

(* what the code does: the asset is deleted once, before the first attempt *)
C33_NoAssetAtFirstAttempt == C33_AtAttempt /\ up.attempts = 0 => ~C33_Held

(* an earlier attempt raised and left a part of the file on the release,   *)
(* and the next attempt starts with that asset in place                    *)
C33_LeftBehind ==
  /\ C33_AtAttempt /\ up.attempts >= 1 /\ up.error # NoError
  /\ C33_Held
  /\ FindReleaseAsset(remote, args.working_release,
                      args.file_info[up.idx].filename).size # up.size

(* an earlier attempt returned an asset of the wrong size, which is still  *)
(* on the release at the next attempt                                      *)
C33_ShortLeftBehind ==
  /\ C33_AtAttempt /\ up.attempts >= 1 /\ up.error = NoError
  /\ C33_Held

(* ----------------------------------------------------------------------- *)
(* C34: a prerelease or draft flag that the caller gave as false is        *)
(* treated exactly as one that was not given: the Operation is the one of  *)
(* the keyword map without it; on UPDATE the resolved flag is then the     *)
(* current value of the remote release, and the update of the release      *)
(* turns neither flag from true to false                                   *)
(* ----------------------------------------------------------------------- *)
(* the keyword map with the flags that were given as false left out *)
C34_WithoutFalse ==
  [raw EXCEPT !.pre = IF @ = <<FALSE>> THEN <<>> ELSE @,
              !.draft = IF @ = <<FALSE>> THEN <<>> ELSE @]

C34_Updates == {i \in 1..Len(log) : log[i].op = "update_release"}

(* the release that was updated, before and after *)
C34_Before == ReleaseById(prev.remote, log[FirstIndex(C34_Updates)].n)
C34_After == ReleaseById(remote, log[FirstIndex(C34_Updates)].n)

C34_FalseIsNotSupplied ==
  /\ C31_AfterResolution =>
        args = Construct(C34_WithoutFalse, env, fs, remote, faults).args
  /\ pc = "resolved" /\ args.internal_command = CMD_UPDATE =>
        /\ raw.pre # <<TRUE>> =>
              args.pre = ReleaseById(remote, args.working_release).prerelease
        /\ raw.draft # <<TRUE>> =>
              args.draft = ReleaseById(remote, args.working_release).draft
  /\ C34_Updates # {} =>
        /\ C34_Before.prerelease => C34_After.prerelease
        /\ C34_Before.draft => C34_After.draft

(* a prerelease draft was updated with both flags given as false, and is   *)
(* a prerelease draft still                                                *)
C34_Witness ==
  /\ pc = "done" /\ C34_Updates # {}
  /\ raw.pre = <<FALSE>> /\ raw.draft = <<FALSE>>
  /\ C34_Before.prerelease /\ C34_Before.draft
  /\ C34_After.prerelease /\ C34_After.draft

(* a published release was resolved for update with the prerelease flag    *)
(* given as false                                                          *)
C34_ResolvedWitness ==
  /\ pc = "resolved" /\ args.internal_command = CMD_UPDATE
  /\ raw.pre = <<FALSE>> /\ ~args.pre

(* ----------------------------------------------------------------------- *)
(* C35: CREATE or DELETE_TAG is chosen only when the remote has no release *)
(* for the target: a release lookup that failed for another reason than    *)
(* not-found never leads to CREATE or DELETE_TAG                           *)
(* ----------------------------------------------------------------------- *)
(* the release of the target, as the remote state has it *)
C35_TargetRelease ==
  IF args.latest THEN GwGetLatestRelease(remote) ELSE GwGetRelease(remote, args.tag)

C35_AbsentChosen ==
  pc = "resolved" /\ args.internal_command \in {CMD_CREATE, CMD_DELETE_TAG}

C35_OnlyWhenAbsent ==
  C35_AbsentChosen => faults.release = "ok" /\ C35_TargetRelease = NoRelease

(* what the code does: the release is absent, or the lookup raised a       *)
(* GithubException of any kind                                             *)
C35_AbsentOrAnyGithubError ==
  C35_AbsentChosen => faults.release = "gh" \/ C35_TargetRelease = NoRelease

(* the lookup failed with a GithubException that is no 404, the release    *)
(* exists, and the Operation is a creation                                 *)
C35_CreateOverExisting ==
  /\ C35_AbsentChosen /\ args.internal_command = CMD_CREATE
  /\ faults.release = "gh"
  /\ C35_TargetRelease # NoRelease

(* the same for a deletion: the Operation deletes the tag only *)
C35_DeleteTagOverExisting ==
  /\ C35_AbsentChosen /\ args.internal_command = CMD_DELETE_TAG
  /\ faults.release = "gh"
  /\ C35_TargetRelease # NoRelease

(* a lookup that raised outside the GithubException family ends the        *)
(* resolution                                                              *)
C35_OtherErrorsRaise ==
  C31_AfterResolution /\ faults.release = "net" /\ faults.repo = "ok"
    /\ Passed("tag") /\ remote.repo = args.slug
    => pc = "failed" /\ exc = "TransportError"

(* ----------------------------------------------------------------------- *)
(* C36: when force was not requested, an invocation deletes no release but *)
(* the working release of a DELETE_RELEASE or RECREATE operation (a        *)
(* DELETE_TAG whose tag is a glob pattern deletes none); CREATE, UPDATE    *)
(* and DELETE_FILE delete no release and no tag, whatever include_tag and  *)
(* force are                                                               *)
(* ----------------------------------------------------------------------- *)
(* the releases this invocation has deleted so far *)
C36_Deleted == ReleaseIds(prev.remote) \ ReleaseIds(remote)

(* the tags this invocation has deleted so far *)
C36_TagsDeleted ==
  {prev.remote.tags[i].name : i \in 1..Len(prev.remote.tags)}
    \ {remote.tags[i].name : i \in 1..Len(remote.tags)}

(* the release the resolution selected, in the remote state it started from *)
C36_Working ==
  IF args.latest THEN GwGetLatestRelease(prev.remote)
  ELSE GwGetRelease(prev.remote, args.tag)

C36_Deletions ==
  {i \in 1..Len(log) : log[i].op \in {"delete_release", "delete_tag"}}

C36_DeletesOnlyWorkingRelease ==
  /\ raw.force # <<TRUE>> =>
        /\ C36_Deleted \subseteq {C36_Working}
        /\ C36_Deleted # {} => args.internal_command \in {CMD_DELETE_REL, CMD_RECREATE}
        /\ \A i \in 1..Len(log) :
              log[i].op = "delete_release" => log[i].n = C36_Working
  /\ args.internal_command \in {CMD_CREATE, CMD_UPDATE, CMD_DELETE_FILE} =>
        C36_Deleted = {} /\ C36_TagsDeleted = {} /\ C36_Deletions = {}

(* a release deletion without force, done, in a repository of two releases *)
C36_Witness ==
  /\ pc = "done" /\ raw.force # <<TRUE>>
  /\ args.internal_command = CMD_DELETE_REL
  /\ C36_Deleted = {C36_Working}
  /\ Len(remote.releases) = 1

(* a tag deletion by pattern without force, done: the tags of both         *)
(* releases matched and both releases are there                            *)
C36_GlobWitness ==
  /\ pc = "done" /\ raw.force # <<TRUE>>
  /\ args.internal_command = CMD_DELETE_TAG /\ args.tag = "v*"
  /\ Len(prev.remote.releases) = 2 /\ C36_Deleted = {}

(* an update with force and include_tag, done, of a release whose tag is   *)
(* in the tag list                                                         *)
C36_UpdateWitness ==
  /\ pc = "done" /\ args.internal_command = CMD_UPDATE
  /\ args.force /\ args.include_tag
  /\ prev.remote.tags # <<>>

(* a creation with force and include_tag, done, in a repository that has   *)
(* a tag                                                                   *)
C36_CreateWitness ==
  /\ pc = "done" /\ args.internal_command = CMD_CREATE
  /\ args.force /\ args.include_tag
  /\ prev.remote.tags # <<>>

(* a file deletion with force and include_tag, done *)
C36_DeleteFileWitness ==
  /\ pc = "done" /\ args.internal_command = CMD_DELETE_FILE
  /\ args.force /\ args.include_tag
  /\ \E i \in 1..Len(log) : log[i].op = "delete_asset"

====
